---- MODULE Spec2Model ----
(***************************************************************************)
(* VeilNet: the authority store (storage/db.py), the store-backed          *)
(* Validator (node/validator.py), the submit / register handlers           *)
(* (node/routes.py) and the in-memory Mempool (node/mempool.py).           *)
(***************************************************************************)
EXTENDS Integers, Sequences, FiniteSets, TLC

(***************************************************************************)
(* Bounds of the model.                                                    *)
(***************************************************************************)
\* largest nonce a submitted transaction carries
MaxNonce == 2
\* largest number of entries the mempool holds in the model
MaxPool == 3
\* largest nonce of the transactions offered to the mempool
MaxMpNonce == 1
\* number of process_transaction calls each concurrent handler makes
MaxCalls == 1
\* largest limit passed to get_pending_transactions
MaxLimit == 4
\* number of fields in which the second Transaction object is made to differ
MaxVary == 2
\* longest plaintext given to the PayloadEncryptor
MaxPlainLen == 2

Identities == {"I1", "I2"}
Seals == {"S1", "S2"}
Threads == {"t1", "t2"}

(***************************************************************************)
(* Values: Optional results, byte strings and base64 text.                 *)
(***************************************************************************)
None == [some |-> FALSE]
Some(v) == [some |-> TRUE, val |-> v]

\* PEM export of the public key of seal key pair s
Seal_get_public_key_bytes(s) == [kind |-> "pem", key |-> s]
\* the seal fingerprint: a hash of the public key of key pair s
Seal_get_fingerprint(s) == s
\* bytes that are no PEM public key
GarbageBytes == [kind |-> "raw", key |-> "junk"]

\* base64 text of bytes b
b64encode(b) == [b64 |-> b, padded |-> TRUE]
\* base64 text with incorrect padding
BadBase64 == [b64 |-> GarbageBytes, padded |-> FALSE]
\* base64.b64decode: the bytes, or None when the text does not decode (binascii.Error)
b64decode(s) == IF s.padded THEN Some(s.b64) ELSE None

\* serialization.load_pem_public_key: the key pair the PEM names, None when it raises
load_pem_public_key(bytes) == IF bytes.kind = "pem" THEN Some(bytes.key) ELSE None

(***************************************************************************)
(* Transactions.                                                           *)
(***************************************************************************)
SealRotationFields == {"new_seal_fingerprint", "new_seal_public_key"}

\* payload.data of a seal rotation naming seal fingerprint n with base64 key text k
RotationData(n, k) == Some([new_seal_fingerprint |-> n, new_seal_public_key |-> k])
\* payload.data of a seal rotation that lacks new_seal_public_key
RotationDataNoKey(n) == Some([new_seal_fingerprint |-> n])
\* payload.data of a data transaction
DataMsg == Some([msg |-> "hi"])
\* payload.data of a token transfer
TransferData(amount, recipient) == Some([amount |-> amount, recipient |-> recipient])

TransactionPayload(type, data, timestamp) ==
    [type |-> type, data |-> data, timestamp |-> timestamp]

\* Transaction.to_bytes: the canonical bytes, which leave the signature out
Transaction_to_bytes(tx) ==
    [public_key |-> tx.public_key, seal_fingerprint |-> tx.seal_fingerprint,
     payload |-> tx.payload, nonce |-> tx.nonce, version |-> tx.version]

\* Transaction.transaction_id: sha256 of the canonical bytes (the hash taken as injective)
Transaction_transaction_id(tx) == [veiltx |-> Transaction_to_bytes(tx)]

\* Seal.sign by key pair s over data, then SignatureManager.sign_transaction's base64
SignatureManager_sign_transaction(s, data) ==
    b64encode([kind |-> "sig", key |-> s, over |-> data])

UnsignedTx(pk, sfp, payload, nonce) ==
    [public_key |-> pk, seal_fingerprint |-> sfp, payload |-> payload,
     signature |-> b64encode([kind |-> "sig", key |-> "", over |-> ""]),
     nonce |-> nonce, version |-> "1.0"]

\* construct unsigned, sign the canonical bytes with key pair s, attach the signature
SignedTx(pk, sfp, payload, nonce, s) ==
    LET u == UnsignedTx(pk, sfp, payload, nonce)
    IN [u EXCEPT !.signature = SignatureManager_sign_transaction(s, Transaction_to_bytes(u))]

\* a transaction whose signature was made by s over the same fields with another nonce
TamperedTx(pk, sfp, payload, nonce, s) ==
    LET u == UnsignedTx(pk, sfp, payload, nonce)
        v == UnsignedTx(pk, sfp, payload, nonce + 1)
    IN [u EXCEPT !.signature = SignatureManager_sign_transaction(s, Transaction_to_bytes(v))]

\* Ed25519PublicKey.verify behind the try block of process_transaction:
\* TRUE when no exception is raised
VerifySignature(seal_public_key_bytes, signature, data_to_verify) ==
    LET k == load_pem_public_key(seal_public_key_bytes)
        sig == b64decode(signature)
    IN /\ k.some
       /\ sig.some
       /\ sig.val.key = k.val
       /\ sig.val.over = data_to_verify

(***************************************************************************)
(* The authority store: tables identities, seal_authorizations,            *)
(* identity_state.                                                         *)
(***************************************************************************)
EmptyDb ==
    [identities |-> {}, seal_authorizations |-> <<>>, identity_state |-> <<>>,
     transactions |-> {}]

\* the identity_state row a new identity starts with
NewIdentityState == [balance |-> 0, nonce |-> 0, data_store |-> <<>>]

\* the seal_authorizations row an INSERT gives: is_active defaults to TRUE
NewSealAuthorization(key, version) ==
    [seal_public_key_bytes |-> key, version |-> version, is_active |-> TRUE]

Result(ok, db) == [ok |-> ok, db |-> db]

\* Database.save_identity: INSERT ... ON CONFLICT DO NOTHING, the id in both cases
Db_save_identity(d, fingerprint) ==
    IF fingerprint \in d.identities
    THEN Result(TRUE, d)
    ELSE Result(TRUE, [d EXCEPT !.identities = @ \cup {fingerprint},
                                !.identity_state = (fingerprint :> NewIdentityState) @@ @])

\* authorize_seal mutated to ON CONFLICT DO UPDATE: an existing row is made active again
Db_authorize_seal_upserting(d, identity_fingerprint, seal_fingerprint, key, version) ==
    IF identity_fingerprint \notin d.identities
    THEN Result(FALSE, d)
    ELSE Result(TRUE, [d EXCEPT !.seal_authorizations =
              (<<identity_fingerprint, seal_fingerprint>> :> NewSealAuthorization(key, version)) @@ @])

\* Database.authorize_seal
Db_authorize_seal(d, identity_fingerprint, seal_fingerprint, key, version) ==
    IF identity_fingerprint \notin d.identities
    THEN Result(FALSE, d)
    ELSE IF <<identity_fingerprint, seal_fingerprint>> \in DOMAIN d.seal_authorizations
    THEN Result(FALSE, d)
    ELSE Result(TRUE, [d EXCEPT !.seal_authorizations =
              (<<identity_fingerprint, seal_fingerprint>> :> NewSealAuthorization(key, version)) @@ @])

\* Database.deactivate_seal: UPDATE ... WHERE seal_fingerprint = %s
Db_deactivate_seal(d, seal_fingerprint) ==
    LET hit == {k \in DOMAIN d.seal_authorizations : k[2] = seal_fingerprint}
    IN Result(hit # {},
              [d EXCEPT !.seal_authorizations =
                  [k \in DOMAIN @ |-> IF k \in hit THEN [@[k] EXCEPT !.is_active = FALSE]
                                                   ELSE @[k]]])

\* Database.get_authorized_seal_public_key
Db_get_authorized_seal_public_key(d, identity_fingerprint, seal_fingerprint) ==
    LET k == <<identity_fingerprint, seal_fingerprint>>
    IN IF /\ identity_fingerprint \in d.identities
          /\ k \in DOMAIN d.seal_authorizations
          /\ d.seal_authorizations[k].is_active
       THEN Some(d.seal_authorizations[k].seal_public_key_bytes)
       ELSE None

\* Database.get_active_seals
Db_get_active_seals(d, identity_fingerprint) ==
    {s \in Seals : Db_get_authorized_seal_public_key(d, identity_fingerprint, s).some}

\* Database.get_identity_nonce
Db_get_identity_nonce(d, identity_fingerprint) ==
    IF identity_fingerprint \in d.identities
       /\ identity_fingerprint \in DOMAIN d.identity_state
    THEN Some(d.identity_state[identity_fingerprint].nonce)
    ELSE None

\* Database.save_transaction: INSERT ... ON CONFLICT (transaction_id) DO NOTHING,
\* True when a row was inserted
Db_save_transaction(d, transaction, status) ==
    IF \E row \in d.transactions :
          row.transaction_id = Transaction_transaction_id(transaction)
    THEN Result(FALSE, d)
    ELSE Result(TRUE, [d EXCEPT !.transactions =
                          @ \cup {[transaction_id |-> Transaction_transaction_id(transaction),
                                   status |-> status]}])

\* Database.get_identity_state: balance, nonce and data_store of the identity
Db_get_identity_state(d, identity_fingerprint) ==
    IF identity_fingerprint \in d.identities
       /\ identity_fingerprint \in DOMAIN d.identity_state
    THEN Some(d.identity_state[identity_fingerprint])
    ELSE None

\* increment_identity_nonce mutated to lose its UPDATE
Db_increment_identity_nonce_lost(d, identity_fingerprint) ==
    Result(identity_fingerprint \in d.identities, d)

\* increment_identity_nonce mutated to an UPDATE without its WHERE clause
Db_increment_identity_nonce_everywhere(d, identity_fingerprint) ==
    IF identity_fingerprint \in d.identities
       /\ identity_fingerprint \in DOMAIN d.identity_state
    THEN Result(TRUE, [d EXCEPT !.identity_state =
                          [i \in DOMAIN @ |-> [@[i] EXCEPT !.nonce = @ + 1]]])
    ELSE Result(FALSE, d)

\* Database.increment_identity_nonce
Db_increment_identity_nonce(d, identity_fingerprint) ==
    IF identity_fingerprint \in d.identities
       /\ identity_fingerprint \in DOMAIN d.identity_state
    THEN Result(TRUE, [d EXCEPT !.identity_state[identity_fingerprint].nonce = @ + 1])
    ELSE Result(FALSE, d)

(***************************************************************************)
(* The Validator.                                                          *)
(***************************************************************************)
Outcome(ok, reason, db) == [ok |-> ok, reason |-> reason, db |-> db]

\* SealRotationData.model_validate: TRUE when payload.data validates
SealRotationData_model_validate(data) ==
    /\ data.some
    /\ SealRotationFields \subseteq DOMAIN data.val

\* the nonce gate mutated to accept any nonce not below the stored one
NonceGateAtLeast(tx_nonce, current_nonce) ==
    /\ current_nonce.some
    /\ tx_nonce >= current_nonce.val

\* the nonce gate of process_transaction: passes unless tx.nonce != current_nonce
NonceGate(tx_nonce, current_nonce) ==
    /\ current_nonce.some
    /\ tx_nonce = current_nonce.val

\* Validator._process_seal_rotation: the store calls in program order; an
\* exception at any point leaves what was committed before it
Validator_process_seal_rotation(d, tx) ==
    IF ~SealRotationData_model_validate(tx.payload.data)
    THEN Outcome(FALSE, "MalformedRotation", d)
    ELSE LET rotation_data == tx.payload.data.val
             d1 == Db_deactivate_seal(d, tx.seal_fingerprint).db
             decoded == b64decode(rotation_data.new_seal_public_key)
         IN IF ~decoded.some
            THEN Outcome(FALSE, "MalformedRotation", d1)
            ELSE Outcome(TRUE, "rotated",
                         Db_authorize_seal(d1, tx.public_key,
                                           rotation_data.new_seal_fingerprint,
                                           decoded.val, 1).db)

\* Validator.process_transaction, run without interleaving
Validator_process_transaction(d, tx) ==
    LET seal_public_key_bytes ==
            Db_get_authorized_seal_public_key(d, tx.public_key, tx.seal_fingerprint)
    IN IF ~seal_public_key_bytes.some
       THEN Outcome(FALSE, "SealNotAuthorized", d)
       ELSE IF ~VerifySignature(seal_public_key_bytes.val, tx.signature,
                                Transaction_to_bytes(tx))
       THEN Outcome(FALSE, "InvalidSignature", d)
       ELSE IF ~NonceGate(tx.nonce, Db_get_identity_nonce(d, tx.public_key))
       THEN Outcome(FALSE, "NonceMismatch", d)
       ELSE LET eff == IF tx.payload.type = "seal_rotation"
                       THEN Validator_process_seal_rotation(d, tx)
                       ELSE Outcome(TRUE, "none", d)
            IN IF ~eff.ok
               THEN Outcome(FALSE, eff.reason, eff.db)
               ELSE Outcome(TRUE, "accepted",
                            Db_increment_identity_nonce(eff.db, tx.public_key).db)

(***************************************************************************)
(* Inputs of the handlers.                                                 *)
(***************************************************************************)
\* PublicKey._generate_fingerprint of the PEM of identity key i
PublicKey_generate_fingerprint(public_key_pem) == public_key_pem.key

IdentityPem(i) == [kind |-> "pem", key |-> i]

\* registration requests: the claimed identity fingerprint may differ from the
\* one the PEM hashes to; the seal is sent with its own key
RegistrationRequests ==
    {[public_key_pem |-> IdentityPem(i), public_key_fingerprint |-> fp,
      seal_public_key_pem |-> Seal_get_public_key_bytes(s),
      seal_fingerprint |-> Seal_get_fingerprint(s)] :
        i \in Identities, fp \in Identities, s \in Seals}

\* seal rotations: naming seal n with its key, with text that does not decode,
\* or lacking the key field
RotationPayloads ==
    {TransactionPayload("seal_rotation", RotationDataNoKey(n), 1) : n \in {"S2"}}
    \cup UNION {{TransactionPayload("seal_rotation",
                                    RotationData(Seal_get_fingerprint(n), k), 1) :
                    k \in {b64encode(Seal_get_public_key_bytes(n)), BadBase64}} :
                 n \in Seals}

\* token transfers to I2: of nothing, and of one token
TransferPayloads ==
    {TransactionPayload("token_transfer", TransferData(a, "I2"), 1) : a \in {0, 1}}

Payloads == {TransactionPayload("data", DataMsg, 1)} \cup RotationPayloads
            \cup TransferPayloads

\* transactions naming seal fingerprint sfp: signed with the key pair of seal s,
\* or carrying a signature its own seal made over other bytes
SubmittedTxs ==
    {SignedTx(pk, Seal_get_fingerprint(sfp), p, n, s) :
        pk \in Identities, sfp \in Seals, p \in Payloads, n \in 0..MaxNonce, s \in Seals}
    \cup {TamperedTx(pk, Seal_get_fingerprint(s), p, n, s) :
        pk \in Identities, p \in Payloads, n \in 0..MaxNonce, s \in Seals}

(***************************************************************************)
(* State.                                                                  *)
(***************************************************************************)
VARIABLES
    db,          \* the authority store
    last,        \* the handler call being answered: its input and its outcome
    rotated,     \* history: the <<identity, seal>> pairs whose seal signed an accepted rotation
    acceptedLog, \* history: the transactions the Validator accepted
    calls,       \* per concurrent handler: where it is in process_transaction, and its locals
    pool,        \* Mempool._transactions: the stored transactions in insertion order
    mpLast,      \* the Mempool call being answered: its input and what it returned
    live,        \* history: the ids added and not removed since
    lastRemoved, \* history: the id most recently removed while present, or None
    lock,        \* Mempool._lock: its holder, or "free"
    mt,          \* per thread: where it is in a Mempool method, and its locals
    addTrue,     \* history: per id, the add_transaction calls that returned True since its last removal
    codec,       \* two Transaction objects and, once encoded, their canonical bytes and ids
    crypt,       \* a PayloadEncryptor round: plaintext, seal, blob, and what decrypt gave
    sm,          \* a StateManager: its identities dict, and the call being answered
    heap         \* the Seal objects made so far, and the rotate() call last made

storeVars == <<db, last, rotated, acceptedLog>>
mempoolVars == <<pool, mpLast, live, lastRemoved>>
lockVars == <<lock, mt, addTrue>>
pureVars == <<codec, crypt, sm, heap>>
vars == <<db, last, rotated, acceptedLog, calls, pool, mpLast, live, lastRemoved,
          lock, mt, addTrue, codec, crypt, sm, heap>>

NoCall == [op |-> "idle", arg |-> None, ok |-> FALSE, reason |-> "none"]
NoMpCall == [op |-> "idle", arg |-> None, ret |-> None]
IdleHandler == [pc |-> "idle", tx |-> None, key |-> None, ok |-> FALSE,
                reason |-> "none", n |-> 0]
IdleThread == [pc |-> "idle", op |-> "none", arg |-> None, ret |-> None, exp |-> None,
               blocked |-> FALSE]

\* the parts of the state a specification does not use stay as constructed
StoreIdle ==
    /\ db = EmptyDb
    /\ last = NoCall
    /\ rotated = {}
    /\ acceptedLog = {}
HandlersIdle == calls = [t \in Threads |-> IdleHandler]
MempoolIdle ==
    /\ pool = <<>>
    /\ mpLast = NoMpCall
    /\ live = {}
    /\ lastRemoved = None
LockIdle ==
    /\ lock = "free"
    /\ mt = [t \in Threads |-> IdleThread]
    /\ addTrue = <<>>

NoCodec == [pc |-> "none"]
NoCrypt == [pc |-> "none"]
NoSeals == [objects |-> <<>>, last |-> [op |-> "none", self |-> 0, old |-> 0, new |-> 0]]
NoSmCall == [op |-> "idle", arg |-> None, ok |-> FALSE, raised |-> FALSE]
\* StateManager.__init__
StateManager_init == [identities |-> <<>>, last |-> NoSmCall]
PureIdle ==
    /\ codec = NoCodec
    /\ crypt = NoCrypt
    /\ sm = StateManager_init
    /\ heap = NoSeals

Init == StoreIdle /\ HandlersIdle /\ MempoolIdle /\ LockIdle /\ PureIdle

\* register_identity mutated to trust the claimed fingerprint
register_identity_trusting(d, request) ==
    LET fp == PublicKey_generate_fingerprint(request.public_key_pem)
        d1 == Db_save_identity(d, fp).db
        auth == Db_authorize_seal(d1, request.public_key_fingerprint,
                                  request.seal_fingerprint,
                                  request.seal_public_key_pem, 1)
    IN IF ~auth.ok
       THEN Outcome(FALSE, "SealNotAuthorizable", auth.db)
       ELSE Outcome(TRUE, "registered", auth.db)

\* routes.register_identity
register_identity(d, request) ==
    LET fp == PublicKey_generate_fingerprint(request.public_key_pem)
    IN IF fp # request.public_key_fingerprint
       THEN Outcome(FALSE, "FingerprintMismatch", d)
       ELSE LET d1 == Db_save_identity(d, fp).db
                auth == Db_authorize_seal(d1, request.public_key_fingerprint,
                                          request.seal_fingerprint,
                                          request.seal_public_key_pem, 1)
            IN IF ~auth.ok
               THEN Outcome(FALSE, "SealNotAuthorizable", auth.db)
               ELSE Outcome(TRUE, "registered", auth.db)

\* POST /register-identity: the handler runs and its answer is pending
RegisterIdentity ==
    /\ last.op = "idle"
    /\ \E request \in RegistrationRequests :
        LET out == register_identity(db, request)
        IN /\ db' = out.db
           /\ last' = [op |-> "register", arg |-> request, ok |-> out.ok,
                       reason |-> out.reason]
    /\ UNCHANGED <<rotated, acceptedLog, calls, mempoolVars, lockVars, pureVars>>

\* the Validator's part of POST /submit for a transaction of txs: the handler
\* runs and its answer is pending; the accepted transactions are logged when
\* logging is set
SubmitOf(txs, logging) ==
    /\ last.op = "idle"
    /\ \E tx \in txs :
        LET out == Validator_process_transaction(db, tx)
        IN /\ db' = out.db
           /\ last' = [op |-> "submit", arg |-> tx, ok |-> out.ok,
                       reason |-> out.reason]
           /\ rotated' = IF out.ok /\ tx.payload.type = "seal_rotation"
                          THEN rotated \cup {<<tx.public_key, tx.seal_fingerprint>>}
                          ELSE rotated
           /\ acceptedLog' = IF out.ok /\ logging THEN acceptedLog \cup {tx}
                                                     ELSE acceptedLog

Submit ==
    /\ SubmitOf(SubmittedTxs, FALSE)
    /\ UNCHANGED <<calls, mempoolVars, lockVars, pureVars>>

\* the answer is sent; the next request may come in
Respond ==
    /\ last.op # "idle"
    /\ last' = NoCall
    /\ UNCHANGED <<db, rotated, acceptedLog, calls, mempoolVars, lockVars, pureVars>>

Next == RegisterIdentity \/ Submit \/ Respond

Spec == Init /\ [][Next]_vars

\* the submissions of one identity, every accepted one logged: data
\* transactions and rotations (the Validator treats a token transfer as it
\* treats a data transaction)
ReplayTxs ==
    {tx \in SubmittedTxs : tx.public_key = "I1" /\ tx.payload.type # "token_transfer"}

SubmitLogged ==
    /\ SubmitOf(ReplayTxs, TRUE)
    /\ UNCHANGED <<calls, mempoolVars, lockVars, pureVars>>

NextReplay == RegisterIdentity \/ SubmitLogged \/ Respond

SpecReplay == Init /\ [][NextReplay]_vars

(***************************************************************************)
(* Concurrent handlers: process_transaction as the sequence of its store   *)
(* calls, each call its own committed store transaction, the calls of      *)
(* different handlers interleaving freely.                                 *)
(***************************************************************************)
\* the store the concurrent handlers start from: I1 registered with seal S1
RegisteredDb ==
    register_identity(EmptyDb,
        [public_key_pem |-> IdentityPem("I1"), public_key_fingerprint |-> "I1",
         seal_public_key_pem |-> Seal_get_public_key_bytes("S1"),
         seal_fingerprint |-> Seal_get_fingerprint("S1")]).db

\* what the concurrent handlers are sent: transactions of I1 signed by the
\* seal they name, and data transactions whose signature that seal made over
\* other bytes
ConcurrentTxs ==
    {tx \in SubmittedTxs :
        /\ tx.public_key = "I1"
        /\ tx.nonce <= 1
        /\ \/ /\ tx.signature = SignatureManager_sign_transaction(tx.seal_fingerprint,
                                                                  Transaction_to_bytes(tx))
              /\ \/ tx.payload.type = "data"
                 \/ /\ SealRotationData_model_validate(tx.payload.data)
                    /\ tx.payload.data.val.new_seal_fingerprint = "S2"
           \/ /\ tx = TamperedTx("I1", tx.seal_fingerprint, tx.payload, tx.nonce,
                                  tx.seal_fingerprint)
              /\ tx.payload.type = "data"}

InitConcurrent ==
    /\ db = RegisteredDb
    /\ last = NoCall
    /\ rotated = {}
    /\ acceptedLog = {}
    /\ HandlersIdle
    /\ MempoolIdle
    /\ LockIdle
    /\ PureIdle

Finish(t, ok, reason) ==
    calls' = [calls EXCEPT ![t].pc = "done", ![t].ok = ok, ![t].reason = reason]

Goto(t, pc) == calls' = [calls EXCEPT ![t].pc = pc]

\* a handler receives a transaction
HStart(t) ==
    /\ calls[t].pc = "idle"
    /\ calls[t].n < MaxCalls
    /\ \E tx \in ConcurrentTxs :
        calls' = [calls EXCEPT ![t] = [pc |-> "seal_lookup", tx |-> Some(tx), key |-> None,
                                       ok |-> FALSE, reason |-> "none", n |-> @.n + 1]]
    /\ UNCHANGED <<storeVars, mempoolVars, lockVars, pureVars>>

\* process_transaction mutated to read and compare the nonce before the seal lookup
HSealLookup_nonce_first(t) ==
    /\ calls[t].pc = "seal_lookup"
    /\ LET tx == calls[t].tx.val
           k == Db_get_authorized_seal_public_key(db, tx.public_key, tx.seal_fingerprint)
       IN IF ~NonceGate(tx.nonce, Db_get_identity_nonce(db, tx.public_key))
          THEN Finish(t, FALSE, "NonceMismatch")
          ELSE IF ~k.some
          THEN Finish(t, FALSE, "SealNotAuthorized")
          ELSE IF ~VerifySignature(k.val, tx.signature, Transaction_to_bytes(tx))
          THEN Finish(t, FALSE, "InvalidSignature")
          ELSE calls' = [calls EXCEPT ![t].pc = "nonce_read", ![t].key = k]
    /\ UNCHANGED <<storeVars, mempoolVars, lockVars, pureVars>>

\* validator.py 24-39: get_authorized_seal_public_key, then the signature check
HSealLookup(t) ==
    /\ calls[t].pc = "seal_lookup"
    /\ LET tx == calls[t].tx.val
           k == Db_get_authorized_seal_public_key(db, tx.public_key, tx.seal_fingerprint)
       IN IF ~k.some
          THEN Finish(t, FALSE, "SealNotAuthorized")
          ELSE IF ~VerifySignature(k.val, tx.signature, Transaction_to_bytes(tx))
          THEN Finish(t, FALSE, "InvalidSignature")
          ELSE calls' = [calls EXCEPT ![t].pc = "nonce_read", ![t].key = k]
    /\ UNCHANGED <<storeVars, mempoolVars, lockVars, pureVars>>

\* validator.py 41-49, 61: get_identity_nonce, the nonce gate, then model_validate
HNonceRead(t) ==
    /\ calls[t].pc = "nonce_read"
    /\ LET tx == calls[t].tx.val
       IN IF ~NonceGate(tx.nonce, Db_get_identity_nonce(db, tx.public_key))
          THEN Finish(t, FALSE, "NonceMismatch")
          ELSE IF tx.payload.type # "seal_rotation"
          THEN Goto(t, "increment")
          ELSE IF ~SealRotationData_model_validate(tx.payload.data)
          THEN Finish(t, FALSE, "MalformedRotation")
          ELSE Goto(t, "deactivate")
    /\ UNCHANGED <<storeVars, mempoolVars, lockVars, pureVars>>

\* validator.py 64, 70: deactivate_seal, then the base64 decoding of the new key
HDeactivate(t) ==
    /\ calls[t].pc = "deactivate"
    /\ LET tx == calls[t].tx.val
       IN /\ db' = Db_deactivate_seal(db, tx.seal_fingerprint).db
          /\ IF ~b64decode(tx.payload.data.val.new_seal_public_key).some
             THEN Finish(t, FALSE, "MalformedRotation")
             ELSE Goto(t, "authorize")
    /\ UNCHANGED <<last, rotated, acceptedLog, mempoolVars, lockVars, pureVars>>

\* validator.py 67-74: authorize_seal
HAuthorize(t) ==
    /\ calls[t].pc = "authorize"
    /\ LET tx == calls[t].tx.val
           rotation_data == tx.payload.data.val
       IN db' = Db_authorize_seal(db, tx.public_key, rotation_data.new_seal_fingerprint,
                                  b64decode(rotation_data.new_seal_public_key).val, 1).db
    /\ Goto(t, "increment")
    /\ UNCHANGED <<last, rotated, acceptedLog, mempoolVars, lockVars, pureVars>>

\* validator.py 54-56: increment_identity_nonce, return True
HIncrement(t) ==
    /\ calls[t].pc = "increment"
    /\ db' = Db_increment_identity_nonce(db, calls[t].tx.val.public_key).db
    /\ Finish(t, TRUE, "accepted")
    /\ UNCHANGED <<last, rotated, acceptedLog, mempoolVars, lockVars, pureVars>>

\* the handler has answered and takes the next request
HReturn(t) ==
    /\ calls[t].pc = "done"
    /\ Goto(t, "idle")
    /\ UNCHANGED <<storeVars, mempoolVars, lockVars, pureVars>>

NextConcurrent ==
    \E t \in Threads :
        \/ HStart(t)
        \/ HSealLookup(t)
        \/ HNonceRead(t)
        \/ HDeactivate(t)
        \/ HAuthorize(t)
        \/ HIncrement(t)
        \/ HReturn(t)

SpecConcurrent == InitConcurrent /\ [][NextConcurrent]_vars

(***************************************************************************)
(* The Mempool: a dict from transaction_id to Transaction, kept in         *)
(* insertion order, behind one lock.                                       *)
(***************************************************************************)
DictEntry(k, v) == [k |-> k, v |-> v]

\* key in dict
Dict_contains(d, k) == \E i \in DOMAIN d : d[i].k = k

\* dict.get(key): the value, or None
Dict_get(d, k) ==
    IF Dict_contains(d, k)
    THEN Some(d[CHOOSE i \in DOMAIN d : d[i].k = k].v)
    ELSE None

\* dict[key] = value: a present key keeps its place, a new key goes last
Dict_set(d, k, v) ==
    IF Dict_contains(d, k)
    THEN [i \in DOMAIN d |-> IF d[i].k = k THEN DictEntry(k, v) ELSE d[i]]
    ELSE Append(d, DictEntry(k, v))

DictKeeps(e, k) == e.k # k

\* del dict[key]
Dict_del(d, k) == SelectSeq(d, LAMBDA e : DictKeeps(e, k))

Dict_keys(d) == {d[i].k : i \in DOMAIN d}

MpResult(ret, p) == [ret |-> ret, pool |-> p]

\* add_transaction mutated to store the transaction whether or not its id is held
Mempool_add_transaction_overwriting(p, tx) ==
    MpResult(TRUE, Dict_set(p, Transaction_transaction_id(tx), tx))

\* the body of Mempool.add_transaction
Mempool_add_transaction(p, tx) ==
    IF Dict_contains(p, Transaction_transaction_id(tx))
    THEN MpResult(FALSE, p)
    ELSE MpResult(TRUE, Dict_set(p, Transaction_transaction_id(tx), tx))

\* get_transaction mutated to answer with the oldest entry, whatever id is asked for
Mempool_get_transaction_oldest(p, transaction_id) ==
    MpResult(IF p = <<>> THEN None ELSE Some(p[1].v), p)

\* the body of Mempool.get_transaction
Mempool_get_transaction(p, transaction_id) ==
    MpResult(Dict_get(p, transaction_id), p)

\* remove_transaction mutated to leave the entry in place
Mempool_remove_transaction_keeping(p, transaction_id) == MpResult(None, p)

\* remove_transaction mutated to drop the oldest entry instead of the named one
Mempool_remove_transaction_oldest(p, transaction_id) ==
    IF Dict_contains(p, transaction_id) THEN MpResult(None, Tail(p)) ELSE MpResult(None, p)

\* the body of Mempool.remove_transaction
Mempool_remove_transaction(p, transaction_id) ==
    IF Dict_contains(p, transaction_id)
    THEN MpResult(None, Dict_del(p, transaction_id))
    ELSE MpResult(None, p)

\* the body of Mempool.get_size
Mempool_get_size(p) == MpResult(Len(p), p)

\* dict.values(): the stored transactions in insertion order
Dict_values(d) == [i \in DOMAIN d |-> d[i].v]

\* the sort key of get_pending_transactions
PendingKey(tx) == tx.payload.timestamp

\* e placed behind every element of the sorted list s whose key is not above its own
InsertSorted(s, e) ==
    LET n == Cardinality({i \in DOMAIN s : PendingKey(s[i]) <= PendingKey(e)})
    IN SubSeq(s, 1, n) \o <<e>> \o SubSeq(s, n + 1, Len(s))

\* a sort that puts the newest first
RECURSIVE sorted_newest_first(_)
sorted_newest_first(txs) ==
    IF txs = <<>> THEN <<>>
    ELSE LET rest == sorted_newest_first(SubSeq(txs, 1, Len(txs) - 1))
             e == txs[Len(txs)]
             n == Cardinality({i \in DOMAIN rest : PendingKey(rest[i]) >= PendingKey(e)})
         IN SubSeq(rest, 1, n) \o <<e>> \o SubSeq(rest, n + 1, Len(rest))

\* sorted(txs, key=lambda tx: tx.payload.timestamp): ascending and stable
RECURSIVE sorted(_)
sorted(txs) ==
    IF txs = <<>> THEN <<>>
    ELSE InsertSorted(sorted(SubSeq(txs, 1, Len(txs) - 1)), txs[Len(txs)])

\* the slice s[:limit]; a negative limit counts from the end
SliceTo(s, limit) ==
    IF limit >= 0
    THEN SubSeq(s, 1, IF limit < Len(s) THEN limit ELSE Len(s))
    ELSE SubSeq(s, 1, IF Len(s) + limit > 0 THEN Len(s) + limit ELSE 0)

\* the body of Mempool.get_pending_transactions
Mempool_get_pending_transactions(p, limit) ==
    MpResult(SliceTo(sorted(Dict_values(p)), limit), p)

\* what the Mempool is offered: data transactions of I1 naming seal S1, two
\* timestamps, each with the signature of S1 and with another signature
MempoolTxs ==
    {SignedTx("I1", Seal_get_fingerprint("S1"), TransactionPayload("data", DataMsg, ts), n, s) :
        ts \in {1, 2}, n \in 0..MaxMpNonce, s \in Seals}

MempoolIds == {Transaction_transaction_id(tx) : tx \in MempoolTxs}

MpAdd ==
    /\ mpLast.op = "idle"
    /\ \E tx \in MempoolTxs :
        LET r == Mempool_add_transaction(pool, tx)
        IN /\ Len(r.pool) <= MaxPool
           /\ pool' = r.pool
           /\ mpLast' = [op |-> "add", arg |-> tx, ret |-> r.ret]
           /\ live' = live \cup {Transaction_transaction_id(tx)}
    /\ UNCHANGED <<lastRemoved, storeVars, calls, lockVars, pureVars>>

MpGet ==
    /\ mpLast.op = "idle"
    /\ \E id \in MempoolIds :
        LET r == Mempool_get_transaction(pool, id)
        IN /\ pool' = r.pool
           /\ mpLast' = [op |-> "get", arg |-> id, ret |-> r.ret]
    /\ UNCHANGED <<live, lastRemoved, storeVars, calls, lockVars, pureVars>>

MpRemove ==
    /\ mpLast.op = "idle"
    /\ \E id \in MempoolIds :
        LET r == Mempool_remove_transaction(pool, id)
        IN /\ pool' = r.pool
           /\ mpLast' = [op |-> "remove", arg |-> id, ret |-> r.ret]
           /\ live' = live \ {id}
           /\ lastRemoved' = IF id \in live THEN Some(id) ELSE lastRemoved
    /\ UNCHANGED <<storeVars, calls, lockVars, pureVars>>

MpSize ==
    /\ mpLast.op = "idle"
    /\ LET r == Mempool_get_size(pool)
       IN /\ pool' = r.pool
          /\ mpLast' = [op |-> "size", arg |-> None, ret |-> r.ret]
    /\ UNCHANGED <<live, lastRemoved, storeVars, calls, lockVars, pureVars>>

MpPending ==
    /\ mpLast.op = "idle"
    /\ \E limit \in (-1)..MaxLimit :
        LET r == Mempool_get_pending_transactions(pool, limit)
        IN /\ pool' = r.pool
           /\ mpLast' = [op |-> "pending", arg |-> [limit |-> limit], ret |-> r.ret]
    /\ UNCHANGED <<live, lastRemoved, storeVars, calls, lockVars, pureVars>>

\* the call has returned; the next one may be made
MpRespond ==
    /\ mpLast.op # "idle"
    /\ mpLast' = NoMpCall
    /\ UNCHANGED <<pool, live, lastRemoved, storeVars, calls, lockVars, pureVars>>

NextMempool == MpAdd \/ MpGet \/ MpRemove \/ MpSize \/ MpPending \/ MpRespond

SpecMempool == Init /\ [][NextMempool]_vars

(***************************************************************************)
(* Threads in the Mempool: every method body runs inside `with self._lock`.*)
(* A body is split into its reads and writes of the dict, so that what     *)
(* keeps them together is the lock alone.                                  *)
(***************************************************************************)
\* what the threads offer: one transaction for each id, the later nonce with
\* the earlier timestamp
LockedTxs ==
    {tx \in MempoolTxs :
        /\ tx.payload.timestamp = 2 - (tx.nonce % 2)
        /\ tx.signature = SignatureManager_sign_transaction("S1", Transaction_to_bytes(tx))}
LockedIds == {Transaction_transaction_id(tx) : tx \in LockedTxs}

MempoolCalls ==
    {[op |-> "add", arg |-> tx] : tx \in LockedTxs}
    \cup {[op |-> o, arg |-> id] : o \in {"get", "remove"}, id \in LockedIds}
    \cup {[op |-> "size", arg |-> None]}
    \cup {[op |-> "pending", arg |-> [limit |-> l]] : l \in {1, MaxLimit}}

\* the method run alone on the dict p
MempoolCallAlone(p, c) ==
    CASE c.op = "add" -> Mempool_add_transaction(p, c.arg)
      [] c.op = "get" -> Mempool_get_transaction(p, c.arg)
      [] c.op = "remove" -> Mempool_remove_transaction(p, c.arg)
      [] c.op = "size" -> Mempool_get_size(p)
      [] c.op = "pending" -> Mempool_get_pending_transactions(p, c.arg.limit)

\* a thread keeps what a method returns under the method's name
Returned(op, v) == op :> v

\* a lock that never makes a thread wait
Lock_acquirable_always(l) == TRUE

\* threading.Lock: acquire blocks until the lock is free
Lock_acquirable(l) == l = "free"

InsideLock == {"body", "write", "delete", "iterate", "release"}

AddTrueOf(id) == IF id \in DOMAIN addTrue THEN addTrue[id] ELSE 0

\* a thread calls a method; `blocked` notes that the lock was held at that moment
TCall(t) ==
    /\ mt[t].pc = "idle"
    /\ \E c \in MempoolCalls :
        mt' = [mt EXCEPT ![t] = [pc |-> "acquire", op |-> c.op, arg |-> c.arg,
                                 ret |-> None, exp |-> None, blocked |-> lock # "free"]]
    /\ UNCHANGED <<lock, addTrue, pool, mpLast, live, lastRemoved, storeVars, calls, pureVars>>

\* with self._lock: entered; exp is what the method run alone would do now
TAcquire(t) ==
    /\ mt[t].pc = "acquire"
    /\ Lock_acquirable(lock)
    /\ lock' = t
    /\ mt' = [mt EXCEPT ![t].pc = "body",
                        ![t].exp = LET r == MempoolCallAlone(pool, [op |-> mt[t].op, arg |-> mt[t].arg])
                                   IN [pool |-> r.pool, ret |-> Returned(mt[t].op, r.ret)]]
    /\ UNCHANGED <<addTrue, pool, mpLast, live, lastRemoved, storeVars, calls, pureVars>>

\* mempool.py 24-25: the membership test of add_transaction
TAddCheck(t) ==
    /\ mt[t].pc = "body"
    /\ mt[t].op = "add"
    /\ IF Dict_contains(pool, Transaction_transaction_id(mt[t].arg))
       THEN mt' = [mt EXCEPT ![t].pc = "release", ![t].ret = Returned("add", FALSE)]
       ELSE mt' = [mt EXCEPT ![t].pc = "write"]
    /\ UNCHANGED <<lock, addTrue, pool, mpLast, live, lastRemoved, storeVars, calls, pureVars>>

\* mempool.py 26-27: the store of add_transaction
TAddWrite(t) ==
    /\ mt[t].pc = "write"
    /\ LET id == Transaction_transaction_id(mt[t].arg)
       IN /\ pool' = Dict_set(pool, id, mt[t].arg)
          /\ addTrue' = (id :> AddTrueOf(id) + 1) @@ addTrue
    /\ mt' = [mt EXCEPT ![t].pc = "release", ![t].ret = Returned("add", TRUE)]
    /\ UNCHANGED <<lock, mpLast, live, lastRemoved, storeVars, calls, pureVars>>

\* mempool.py 47: the membership test of remove_transaction
TRemoveCheck(t) ==
    /\ mt[t].pc = "body"
    /\ mt[t].op = "remove"
    /\ IF Dict_contains(pool, mt[t].arg)
       THEN mt' = [mt EXCEPT ![t].pc = "delete"]
       ELSE mt' = [mt EXCEPT ![t].pc = "release", ![t].ret = Returned("remove", None)]
    /\ UNCHANGED <<lock, addTrue, pool, mpLast, live, lastRemoved, storeVars, calls, pureVars>>

\* mempool.py 48: the del of remove_transaction
TRemoveDelete(t) ==
    /\ mt[t].pc = "delete"
    /\ pool' = Dict_del(pool, mt[t].arg)
    /\ addTrue' = (mt[t].arg :> 0) @@ addTrue
    /\ mt' = [mt EXCEPT ![t].pc = "release", ![t].ret = Returned("remove", None)]
    /\ UNCHANGED <<lock, mpLast, live, lastRemoved, storeVars, calls, pureVars>>

\* mempool.py 32: get_transaction
TGet(t) ==
    /\ mt[t].pc = "body"
    /\ mt[t].op = "get"
    /\ mt' = [mt EXCEPT ![t].pc = "release", ![t].ret = Returned("get", Dict_get(pool, mt[t].arg))]
    /\ UNCHANGED <<lock, addTrue, pool, mpLast, live, lastRemoved, storeVars, calls, pureVars>>

\* mempool.py 53: get_size
TSize(t) ==
    /\ mt[t].pc = "body"
    /\ mt[t].op = "size"
    /\ mt' = [mt EXCEPT ![t].pc = "release", ![t].ret = Returned("size", Len(pool))]
    /\ UNCHANGED <<lock, addTrue, pool, mpLast, live, lastRemoved, storeVars, calls, pureVars>>

\* get_pending_transactions mutated to iterate outside the with block
TPendingStart_unlocked(t) ==
    /\ mt[t].pc = "body"
    /\ mt[t].op = "pending"
    /\ lock' = "free"
    /\ mt' = [mt EXCEPT ![t].pc = "iterate", ![t].ret = Returned("pending", <<>>)]
    /\ UNCHANGED <<addTrue, pool, mpLast, live, lastRemoved, storeVars, calls, pureVars>>

\* mempool.py 38-39: sorted() starts to iterate self._transactions.values()
TPendingStart(t) ==
    /\ mt[t].pc = "body"
    /\ mt[t].op = "pending"
    /\ mt' = [mt EXCEPT ![t].pc = "iterate", ![t].ret = Returned("pending", <<>>)]
    /\ UNCHANGED <<lock, addTrue, pool, mpLast, live, lastRemoved, storeVars, calls, pureVars>>

\* mempool.py 38-42: the iteration takes the next value of the dict; at its end
\* the values taken are sorted and sliced
TPendingIterate(t) ==
    /\ mt[t].pc = "iterate"
    /\ IF Len(mt[t].ret.pending) < Len(pool)
       THEN mt' = [mt EXCEPT ![t].ret.pending = Append(@, Dict_values(pool)[Len(@) + 1])]
       ELSE mt' = [mt EXCEPT ![t].pc = "release",
                             ![t].ret.pending = SliceTo(sorted(@), mt[t].arg.limit)]
    /\ UNCHANGED <<lock, addTrue, pool, mpLast, live, lastRemoved, storeVars, calls, pureVars>>

\* a with block that is left without releasing the lock
TRelease_keeping(t) ==
    /\ mt[t].pc = "release"
    /\ mt' = [mt EXCEPT ![t].pc = "returned"]
    /\ UNCHANGED <<lock, addTrue, pool, mpLast, live, lastRemoved, storeVars, calls, pureVars>>

\* the with block is left: the lock is released and the method returns
TRelease(t) ==
    /\ mt[t].pc = "release"
    /\ lock' = "free"
    /\ mt' = [mt EXCEPT ![t].pc = "returned"]
    /\ UNCHANGED <<addTrue, pool, mpLast, live, lastRemoved, storeVars, calls, pureVars>>

\* the caller has its result and may call again
TReturn(t) ==
    /\ mt[t].pc = "returned"
    /\ mt' = [mt EXCEPT ![t] = IdleThread]
    /\ UNCHANGED <<lock, addTrue, pool, mpLast, live, lastRemoved, storeVars, calls, pureVars>>

NextLocked ==
    \E t \in Threads :
        \/ TCall(t)
        \/ TAcquire(t)
        \/ TAddCheck(t)
        \/ TAddWrite(t)
        \/ TRemoveCheck(t)
        \/ TRemoveDelete(t)
        \/ TGet(t)
        \/ TSize(t)
        \/ TPendingStart(t)
        \/ TPendingIterate(t)
        \/ TRelease(t)
        \/ TReturn(t)

SpecLocked == Init /\ [][NextLocked]_vars

(***************************************************************************)
(* POST /submit as a whole: the Validator, then the Mempool, then the      *)
(* transactions table.                                                     *)
(***************************************************************************)
Answer(status, out, d, p) ==
    [status |-> status, ok |-> out.ok, reason |-> out.reason, db |-> d, pool |-> p]

\* a handler that admits the transaction to the mempool whatever the Validator says
submit_transaction_unvalidated(d, p, transaction) ==
    LET out == Validator_process_transaction(d, transaction)
        added == Mempool_add_transaction(p, transaction)
    IN Answer(IF out.ok THEN 202 ELSE 400, out, out.db, added.pool)

\* routes.submit_transaction
submit_transaction(d, p, transaction) ==
    LET out == Validator_process_transaction(d, transaction)
    IN IF ~out.ok
       THEN Answer(400, out, out.db, p)
       ELSE LET added == Mempool_add_transaction(p, transaction)
            IN IF ~added.ret
               THEN Answer(409, out, out.db, added.pool)
               ELSE LET saved == Db_save_transaction(out.db, transaction, "pending")
                    IN IF ~saved.ok
                       THEN Answer(500, out, saved.db, added.pool)
                       ELSE Answer(202, out, saved.db, added.pool)

\* POST /submit: the handler runs and its answer is pending
SubmitTransaction ==
    /\ last.op = "idle"
    /\ \E tx \in ReplayTxs :
        LET r == submit_transaction(db, pool, tx)
        IN /\ db' = r.db
           /\ pool' = r.pool
           /\ last' = [op |-> "submit", arg |-> tx, ok |-> r.ok, reason |-> r.reason,
                       status |-> r.status]
           /\ rotated' = IF r.ok /\ tx.payload.type = "seal_rotation"
                          THEN rotated \cup {<<tx.public_key, tx.seal_fingerprint>>}
                          ELSE rotated
           /\ acceptedLog' = IF r.ok THEN acceptedLog \cup {tx} ELSE acceptedLog
    /\ UNCHANGED <<calls, mpLast, live, lastRemoved, lockVars, pureVars>>

NextSubmit == RegisterIdentity \/ SubmitTransaction \/ Respond

SpecSubmit == Init /\ [][NextSubmit]_vars

(***************************************************************************)
(* The transaction codec in detail: Python dicts keep insertion order,     *)
(* model_dump leaves None fields out, json.dumps(sort_keys=True) writes    *)
(* the keys of every dict in sorted order.  JSON text is a sequence of     *)
(* tokens.                                                                 *)
(***************************************************************************)
JStr(s) == [t |-> "str", s |-> s]
JInt(n) == [t |-> "int", n |-> n]
JBytes(b) == [t |-> "bytes", b |-> b]
JDict(items) == [t |-> "dict", items |-> items]
PyItem(k, v) == [k |-> k, v |-> v]

\* the dict keys in use, in the order of Python's str comparison
KeyOrder ==
    <<"a", "b", "data", "encrypted_data", "m", "metadata", "nonce", "payload",
      "public_key", "seal_fingerprint", "timestamp", "type", "version">>
KeyRank(k) == CHOOSE i \in DOMAIN KeyOrder : KeyOrder[i] = k

\* json.dumps without sort_keys: the items in insertion order
dict_items_unsorted(items) == items

\* json.dumps(sort_keys=True): the items of a dict by ascending key
dict_items_sorted(items) ==
    [i \in DOMAIN items |->
        items[CHOOSE j \in DOMAIN items :
                Cardinality({h \in DOMAIN items :
                                KeyRank(items[h].k) < KeyRank(items[j].k)}) = i - 1]]

\* the decimal text of a small int
IntText(n) == <<"0", "1", "2", "3", "4", "5", "6", "7", "8", "9">>[n + 1]

\* base64.b64encode(b).decode() of the byte strings in use (bytes named in hex)
b64encode_decode(b) ==
    CASE b = "" -> ""
      [] b = "07" -> "Bw=="
      [] b = "08" -> "CA=="

\* json.dumps(v, sort_keys=True): the text, or None for the TypeError that a
\* bytes value raises
RECURSIVE json_dumps(_)
RECURSIVE json_dumps_items(_)
json_dumps(v) ==
    CASE v.t = "str" -> Some(<<"\"", v.s, "\"">>)
      [] v.t = "int" -> Some(<<IntText(v.n)>>)
      [] v.t = "bytes" -> None
      [] v.t = "dict" ->
            LET body == json_dumps_items(dict_items_sorted(v.items))
            IN IF body.some THEN Some(<<"{">> \o body.val \o <<"}">>) ELSE None
json_dumps_items(items) ==
    IF items = <<>> THEN Some(<<>>)
    ELSE LET head == json_dumps(items[1].v)
             rest == json_dumps_items(Tail(items))
         IN IF head.some /\ rest.some
            THEN Some(<<"\"", items[1].k, "\"", ":">> \o head.val \o <<",">> \o rest.val)
            ELSE None

\* a Dict[str, str] as a JSON-able dict
StrDict(items) == JDict([i \in DOMAIN items |-> PyItem(items[i].k, JStr(items[i].v))])

\* model_dump mutated to leave the metadata out
TransactionPayload_model_dump_without_metadata(payload) ==
    <<PyItem("type", JStr(payload.type)), PyItem("timestamp", JInt(payload.timestamp))>>

\* TransactionPayload.model_dump(exclude_none=True): the fields in declared
\* order, data and encrypted_data left out when None
TransactionPayload_model_dump(payload) ==
    <<PyItem("type", JStr(payload.type))>>
    \o (IF payload.data.some THEN <<PyItem("data", StrDict(payload.data.val))>> ELSE <<>>)
    \o (IF payload.encrypted_data.some
        THEN <<PyItem("encrypted_data", JBytes(payload.encrypted_data.val))>> ELSE <<>>)
    \o <<PyItem("metadata", StrDict(payload.metadata)),
         PyItem("timestamp", JInt(payload.timestamp))>>

\* transaction.py 73-82: the dict that is serialized; encrypted_data is
\* replaced by its base64 text when it is truthy, so b"" stays bytes
Transaction_signing_dict(tx) ==
    LET dump == TransactionPayload_model_dump(tx.payload)
        payload == [i \in DOMAIN dump |->
                      IF dump[i].k = "encrypted_data" /\ dump[i].v.b # ""
                      THEN PyItem("encrypted_data", JStr(b64encode_decode(dump[i].v.b)))
                      ELSE dump[i]]
    IN JDict(<<PyItem("public_key", JStr(tx.public_key)),
               PyItem("seal_fingerprint", JStr(tx.seal_fingerprint)),
               PyItem("payload", JDict(payload)),
               PyItem("nonce", JInt(tx.nonce)),
               PyItem("version", JStr(tx.version))>>)

\* Transaction.to_bytes as JSON text; None when json.dumps raises
Transaction_to_bytes_json(tx) == json_dumps(Transaction_signing_dict(tx))

\* Transaction.transaction_id over the JSON text (sha256 taken as injective)
Transaction_transaction_id_json(tx) ==
    LET content_to_hash == Transaction_to_bytes_json(tx)
    IN IF content_to_hash.some THEN Some([veiltx |-> content_to_hash.val]) ELSE None

\* payload dicts: empty, {a: 1, b: 2} built in either order, and others
CodecDicts ==
    {<<>>,
     <<PyItem("a", "1"), PyItem("b", "2")>>,
     <<PyItem("b", "2"), PyItem("a", "1")>>,
     <<PyItem("a", "2"), PyItem("b", "2")>>,
     <<PyItem("a", "1")>>}
CodecData == {None} \cup {Some(d) : d \in CodecDicts}
CodecEncrypted == {None, Some(""), Some("07"), Some("08")}
CodecMetadata == {<<>>, <<PyItem("m", "x")>>}

\* the Transaction objects the encoding starts from
CodecTxs ==
    {[public_key |-> "I1", seal_fingerprint |-> "S1",
      payload |-> [type |-> "data", data |-> d, encrypted_data |-> enc,
                   metadata |-> <<>>, timestamp |-> 1],
      signature |-> "sigA", nonce |-> 0, version |-> "1.0"] :
        d \in CodecData, enc \in CodecEncrypted}

\* tx with one field given another value
CodecVariants(tx) ==
    {[tx EXCEPT !.public_key = v] : v \in {"I1", "I2"}}
    \cup {[tx EXCEPT !.seal_fingerprint = v] : v \in {"S1", "S2"}}
    \cup {[tx EXCEPT !.signature = v] : v \in {"sigA", "sigB"}}
    \cup {[tx EXCEPT !.nonce = v] : v \in {0, 1}}
    \cup {[tx EXCEPT !.version = v] : v \in {"1.0", "2.0"}}
    \cup {[tx EXCEPT !.payload.type = v] : v \in {"data", "token_transfer"}}
    \cup {[tx EXCEPT !.payload.timestamp = v] : v \in {1, 2}}
    \cup {[tx EXCEPT !.payload.data = v] : v \in CodecData}
    \cup {[tx EXCEPT !.payload.encrypted_data = v] : v \in CodecEncrypted}
    \cup {[tx EXCEPT !.payload.metadata = v] : v \in CodecMetadata}

\* a Transaction object a is constructed, and b as its copy
CodecConstruct ==
    /\ codec.pc = "none"
    /\ \E a \in CodecTxs :
        codec' = [pc |-> "built", a |-> a, b |-> a, varied |-> 0,
                  bytes_a |-> None, bytes_b |-> None, id_a |-> None, id_b |-> None]
    /\ UNCHANGED <<crypt, sm, heap, storeVars, calls, mempoolVars, lockVars>>

\* b is built again with one field supplied differently
CodecVary ==
    /\ codec.pc = "built"
    /\ codec.varied < MaxVary
    /\ \E b \in CodecVariants(codec.b) \ {codec.b} :
        codec' = [codec EXCEPT !.b = b, !.varied = @ + 1]
    /\ UNCHANGED <<crypt, sm, heap, storeVars, calls, mempoolVars, lockVars>>

\* to_bytes() and transaction_id of both objects
CodecEncode ==
    /\ codec.pc = "built"
    /\ codec' = [codec EXCEPT !.pc = "encoded",
                               !.bytes_a = Transaction_to_bytes_json(codec.a),
                               !.bytes_b = Transaction_to_bytes_json(codec.b),
                               !.id_a = Transaction_transaction_id_json(codec.a),
                               !.id_b = Transaction_transaction_id_json(codec.b)]
    /\ UNCHANGED <<crypt, sm, heap, storeVars, calls, mempoolVars, lockVars>>

NextCodec == CodecConstruct \/ CodecVary \/ CodecEncode

SpecCodec == Init /\ [][NextCodec]_vars

(***************************************************************************)
(* The PayloadEncryptor.  AES-256-GCM is symbolic: a ciphertext byte names *)
(* the key, the nonce and the plaintext byte it hides, a tag byte names    *)
(* the key, the nonce and the whole plaintext; decryption succeeds only on *)
(* bytes made by encryption under the same key and nonce.                  *)
(***************************************************************************)
TAG_SIZE == 16
NONCE_SIZE == 12

Byte(kind, key, n, i, p) == [kind |-> kind, key |-> key, n |-> n, i |-> i, p |-> p]

\* Seal.export_private: the raw private bytes of key pair s
Seal_export_private(s) == [kind |-> "private", key |-> s]

\* a key derivation that gives every seal the same key
derive_key_from_seal_fixed(seal_private_key_bytes) ==
    [hkdf |-> [kind |-> "private", key |-> ""]]

\* PayloadEncryptor.derive_key_from_seal: HKDF-SHA256 with constant salt and info
derive_key_from_seal(seal_private_key_bytes) == [hkdf |-> seal_private_key_bytes]

NoKey == [hkdf |-> [kind |-> "private", key |-> ""]]

\* the values a random byte takes in the model
RandomBytes == {17, 42}

\* os.urandom(size): any of these byte strings
os_urandom(size) ==
    {[i \in 1..size |-> Byte("random", NoKey, <<>>, i, <<r>>)] : r \in RandomBytes}

\* a byte that no encryption produced
JunkByte(i) == Byte("junk", NoKey, <<>>, i, <<>>)

NonceValue(nonce) == [i \in DOMAIN nonce |-> nonce[i].p]

TagBytes(key, nonce, data) ==
    [j \in 1..TAG_SIZE |-> Byte("tag", key, NonceValue(nonce), j, data)]

\* AESGCM(key).encrypt(nonce, data, None): ciphertext, then the tag
AESGCM_encrypt(key, nonce, data) ==
    [i \in DOMAIN data |-> Byte("ct", key, NonceValue(nonce), i, <<data[i]>>)]
    \o TagBytes(key, nonce, data)

\* AESGCM(key).decrypt(nonce, data, None): the plaintext, None for InvalidTag
AESGCM_decrypt(key, nonce, data) ==
    IF Len(data) < TAG_SIZE THEN None
    ELSE LET ct == SubSeq(data, 1, Len(data) - TAG_SIZE)
             tag == SubSeq(data, Len(data) - TAG_SIZE + 1, Len(data))
             genuine == \A i \in DOMAIN ct :
                           /\ ct[i].kind = "ct"
                           /\ ct[i].key = key
                           /\ ct[i].n = NonceValue(nonce)
                           /\ ct[i].i = i
         IN IF ~genuine THEN None
            ELSE LET plain == [i \in DOMAIN ct |-> ct[i].p[1]]
                 IN IF tag = TagBytes(key, nonce, plain) THEN Some(plain) ELSE None

\* PayloadEncryptor.encrypt with the nonce os.urandom gave: nonce || ciphertext || tag
PayloadEncryptor_encrypt(data, key, nonce) == nonce \o AESGCM_encrypt(key, nonce, data)

\* PayloadEncryptor.decrypt: the plaintext, None when ValueError is raised
PayloadEncryptor_decrypt(encrypted_data, key) ==
    IF Len(encrypted_data) < NONCE_SIZE + TAG_SIZE THEN None
    ELSE LET nonce == SubSeq(encrypted_data, 1, NONCE_SIZE)
             ciphertext_with_tag == SubSeq(encrypted_data, NONCE_SIZE + 1, Len(encrypted_data))
         IN AESGCM_decrypt(key, nonce, ciphertext_with_tag)

RECURSIVE BytesUpTo(_)
BytesUpTo(n) ==
    IF n = 0 THEN {<<>>}
    ELSE BytesUpTo(n - 1) \cup {Append(b, x) : b \in BytesUpTo(n - 1), x \in {0, 1}}

Plaintexts == BytesUpTo(MaxPlainLen)

\* what decrypt is given: the blob as encrypted, the blob cut short, or the
\* blob with one byte replaced
DecryptInputs(blob) ==
    {[how |-> "intact", blob |-> blob]}
    \cup {[how |-> "short", blob |-> SubSeq(blob, 1, m)] : m \in 0..(Len(blob) - 1)}
    \cup {[how |-> "tampered", blob |-> [blob EXCEPT ![i] = JunkByte(i)]] : i \in DOMAIN blob}

\* a plaintext is encrypted with the key derived from a seal
CryptEncrypt ==
    /\ crypt.pc = "none"
    /\ \E P \in Plaintexts, s \in Seals, nonce \in os_urandom(NONCE_SIZE) :
        crypt' = [pc |-> "encrypted", plaintext |-> P, seal |-> s,
                  blob |-> PayloadEncryptor_encrypt(
                               P, derive_key_from_seal(Seal_export_private(s)), nonce),
                  how |-> "none", given |-> <<>>, seal2 |-> s, result |-> None]
    /\ UNCHANGED <<codec, sm, heap, storeVars, calls, mempoolVars, lockVars>>

\* decrypt is called with the key derived from a seal
CryptDecrypt ==
    /\ crypt.pc = "encrypted"
    /\ \E s \in Seals, in \in DecryptInputs(crypt.blob) :
        crypt' = [crypt EXCEPT
                    !.pc = "decrypted", !.how = in.how, !.given = in.blob, !.seal2 = s,
                    !.result = PayloadEncryptor_decrypt(
                                   in.blob, derive_key_from_seal(Seal_export_private(s)))]
    /\ UNCHANGED <<codec, sm, heap, storeVars, calls, mempoolVars, lockVars>>

NextCrypt == CryptEncrypt \/ CryptDecrypt

SpecCrypt == Init /\ [][NextCrypt]_vars

(***************************************************************************)
(* Properties of the Validator over the authority store.                   *)
(***************************************************************************)
\* the seal-authorization gate and the signature gate pass for tx in store d
SealAndSignatureGatesPass(d, tx) ==
    LET k == Db_get_authorized_seal_public_key(d, tx.public_key, tx.seal_fingerprint)
    IN /\ k.some
       /\ VerifySignature(k.val, tx.signature, Transaction_to_bytes(tx))

\* C1: a submission is accepted only if its nonce equals the identity's stored
\* nonce, and the stored nonce is then the previous value plus one; a submission
\* that passes the seal and signature gates with any other nonce is rejected as
\* NonceMismatch and the stored nonce stays as it was.
C1_NonceGate ==
    [][last'.op = "submit" =>
        LET tx == last'.arg
            cur == Db_get_identity_nonce(db, tx.public_key)
            new == Db_get_identity_nonce(db', tx.public_key)
        IN /\ last'.ok =>
                /\ cur.some
                /\ tx.nonce = cur.val
                /\ new = Some(cur.val + 1)
           /\ (SealAndSignatureGatesPass(db, tx) /\ cur.some /\ tx.nonce # cur.val) =>
                /\ ~last'.ok
                /\ last'.reason = "NonceMismatch"
                /\ new = cur
                /\ db' = db]_vars

\* C1 witness: a replayed nonce (below the stored one, so an earlier submission
\* was accepted) is answered NonceMismatch
C1_Witness ==
    /\ last.op = "submit"
    /\ last.reason = "NonceMismatch"
    /\ SealAndSignatureGatesPass(db, last.arg)
    /\ last.arg.nonce < Db_get_identity_nonce(db, last.arg.public_key).val

\* C3: whenever the Validator rejects a submission the authority store is
\* exactly as before the call.
C3_RejectionAllOrNothing ==
    [][(last'.op = "submit" /\ ~last'.ok) => db' = db]_vars

\* C4: once a rotation signed by seal S was accepted for identity I, S is never
\* again active for I, and a later submission for I naming S is rejected as
\* SealNotAuthorized.
C4_RotationExclusivity ==
    [][/\ \A p \in rotated' :
            ~Db_get_authorized_seal_public_key(db', p[1], p[2]).some
       /\ (last'.op = "submit"
           /\ <<last'.arg.public_key, last'.arg.seal_fingerprint>> \in rotated) =>
            (~last'.ok /\ last'.reason = "SealNotAuthorized")]_vars

\* C4 witness: a transaction validly signed by the rotated-out seal at the
\* identity's current nonce is answered SealNotAuthorized
C4_Witness ==
    /\ last.op = "submit"
    /\ <<last.arg.public_key, last.arg.seal_fingerprint>> \in rotated
    /\ last.arg.signature =
         SignatureManager_sign_transaction(last.arg.seal_fingerprint,
                                           Transaction_to_bytes(last.arg))
    /\ Db_get_identity_nonce(db, last.arg.public_key) = Some(last.arg.nonce)
    /\ last.reason = "SealNotAuthorized"

\* C5: right after an accepted rotation signed by S and naming another seal N
\* with N's key, S is not active and N is active with N's key.
C5_RotationEffect ==
    [][(/\ last'.op = "submit"
        /\ last'.ok
        /\ last'.arg.payload.type = "seal_rotation"
        /\ last'.arg.payload.data.val.new_seal_fingerprint # last'.arg.seal_fingerprint) =>
        LET tx == last'.arg
            n == tx.payload.data.val.new_seal_fingerprint
        IN /\ ~Db_get_authorized_seal_public_key(db', tx.public_key,
                                                 tx.seal_fingerprint).some
           /\ Db_get_authorized_seal_public_key(db', tx.public_key, n)
                = b64decode(tx.payload.data.val.new_seal_public_key)]_vars

\* C6: a transaction the Validator accepted earlier is rejected whenever it is
\* submitted again: the identity's stored nonce is by then above its nonce.
C6_ReplayRejected ==
    [][(last'.op = "submit" /\ last'.arg \in acceptedLog) =>
        /\ ~last'.ok
        /\ Db_get_identity_nonce(db, last'.arg.public_key).val > last'.arg.nonce
        /\ db' = db]_vars

\* C6 witness: the identical transaction, resubmitted with its seal still
\* active, is answered NonceMismatch
C6_Witness ==
    /\ last.op = "submit"
    /\ last.arg \in acceptedLog
    /\ ~last.ok
    /\ last.reason = "NonceMismatch"

\* C2: of two handlers that have answered transactions of the same identity
\* with the same nonce, at most one has accepted.
C2_SameNonceAtMostOneAccepted ==
    \A t1, t2 \in Threads :
        (/\ t1 # t2
         /\ calls[t1].pc = "done"
         /\ calls[t2].pc = "done"
         /\ calls[t1].tx.val.public_key = calls[t2].tx.val.public_key
         /\ calls[t1].tx.val.nonce = calls[t2].tx.val.nonce)
        => ~(calls[t1].ok /\ calls[t2].ok)

(***************************************************************************)
(* The type effects the Validator is to apply.                             *)
(***************************************************************************)
\* the three gates before the type effects pass for tx in store d
GatesPass(d, tx) ==
    /\ SealAndSignatureGatesPass(d, tx)
    /\ NonceGate(tx.nonce, Db_get_identity_nonce(d, tx.public_key))

\* the transactions of the scenario: data {msg: hi} signed by S1 at nonce 0,
\* the rotation to S2 signed by S1 at nonce 1, a transaction signed by S1 at nonce 2
ScenarioData ==
    SignedTx("I1", Seal_get_fingerprint("S1"), TransactionPayload("data", DataMsg, 1), 0, "S1")
ScenarioRotation ==
    SignedTx("I1", Seal_get_fingerprint("S1"),
             TransactionPayload("seal_rotation",
                 RotationData(Seal_get_fingerprint("S2"),
                              b64encode(Seal_get_public_key_bytes("S2"))), 1), 1, "S1")
ScenarioLate ==
    SignedTx("I1", Seal_get_fingerprint("S1"), TransactionPayload("data", DataMsg, 1), 2, "S1")

\* identity I1 has balance 0 and nonce n; the seals ever authorized for it are
\* those of known, of which those of active are active
ScenarioAt(d, n, known, active) ==
    /\ Db_get_identity_state(d, "I1").some
    /\ Db_get_identity_state(d, "I1").val.balance = 0
    /\ Db_get_identity_nonce(d, "I1") = Some(n)
    /\ {k[2] : k \in {k \in DOMAIN d.seal_authorizations : k[1] = "I1"}} = known
    /\ Db_get_active_seals(d, "I1") = active

\* C13: from balance 0, seal S1 active and nonce 0, (1) the data transaction is
\* accepted, the nonce is 1 and the data store holds msg = hi; (2) the
\* rotation naming S2 is accepted, the nonce is 2, S1 is inactive and S2
\* active; (3) the data transaction sent again is rejected as NonceMismatch;
\* (4) a transaction signed by S1 at nonce 2 is rejected as SealNotAuthorized.
C13_Scenario ==
    [][last'.op = "submit" =>
        /\ (ScenarioAt(db, 0, {"S1"}, {"S1"}) /\ last'.arg = ScenarioData) =>
              /\ last'.ok
              /\ Db_get_identity_nonce(db', "I1") = Some(1)
              /\ "msg" \in DOMAIN Db_get_identity_state(db', "I1").val.data_store
              /\ Db_get_identity_state(db', "I1").val.data_store["msg"] = "hi"
        /\ (ScenarioAt(db, 1, {"S1"}, {"S1"}) /\ last'.arg = ScenarioRotation) =>
              /\ last'.ok
              /\ Db_get_identity_nonce(db', "I1") = Some(2)
              /\ Db_get_active_seals(db', "I1") = {"S2"}
        /\ (ScenarioAt(db, 2, {"S1", "S2"}, {"S2"}) /\ last'.arg = ScenarioData) =>
              /\ ~last'.ok
              /\ last'.reason = "NonceMismatch"
        /\ (ScenarioAt(db, 2, {"S1", "S2"}, {"S2"}) /\ last'.arg = ScenarioLate) =>
              /\ ~last'.ok
              /\ last'.reason = "SealNotAuthorized"]_vars

\* balance of identity i in store d, 0 for an identity that has no state
BalanceOf(d, i) ==
    IF Db_get_identity_state(d, i).some THEN Db_get_identity_state(d, i).val.balance ELSE 0

\* C14: a token_transfer that passes the seal, signature and nonce gates with
\* an amount above the sender's balance is rejected as InsufficientFunds; the
\* balances, the sender's nonce and the set of identities stay as they were.
C14_InsufficientFunds ==
    [][(/\ last'.op = "submit"
        /\ last'.arg.payload.type = "token_transfer"
        /\ GatesPass(db, last'.arg)
        /\ last'.arg.payload.data.val.amount > BalanceOf(db, last'.arg.public_key)) =>
        /\ ~last'.ok
        /\ last'.reason = "InsufficientFunds"
        /\ \A i \in Identities : BalanceOf(db', i) = BalanceOf(db, i)
        /\ Db_get_identity_nonce(db', last'.arg.public_key)
             = Db_get_identity_nonce(db, last'.arg.public_key)
        /\ db'.identities = db.identities]_vars

\* C15: a token_transfer that passes the seal, signature and nonce gates is
\* rejected as InvalidAmount, nothing changing, when its amount is not
\* positive; with a positive amount within the sender's balance it is accepted,
\* the sender has the amount less, the recipient (created with balance 0,
\* nonce 0 and no seal when new) the amount more.
C15_TransferEffect ==
    [][(/\ last'.op = "submit"
        /\ last'.arg.payload.type = "token_transfer"
        /\ GatesPass(db, last'.arg)) =>
        LET tx == last'.arg
            a == tx.payload.data.val.amount
            to == tx.payload.data.val.recipient
        IN /\ a <= 0 => (~last'.ok /\ last'.reason = "InvalidAmount" /\ db' = db)
           /\ (a > 0 /\ a <= BalanceOf(db, tx.public_key)) =>
                /\ last'.ok
                /\ to # tx.public_key =>
                     /\ BalanceOf(db', tx.public_key) = BalanceOf(db, tx.public_key) - a
                     /\ BalanceOf(db', to) = BalanceOf(db, to) + a
                /\ Db_get_identity_state(db', to).some
                /\ ~Db_get_identity_state(db, to).some =>
                     /\ Db_get_identity_nonce(db', to) = Some(0)
                     /\ Db_get_active_seals(db', to) = {}]_vars

\* C16: after an accepted data transaction with cleartext map M the identity's
\* data store is the previous one overridden by M, and its balance and the
\* seal authorizations are as before.
C16_DataEffect ==
    [][(/\ last'.op = "submit"
        /\ last'.ok
        /\ last'.arg.payload.type = "data"
        /\ last'.arg.payload.data.some) =>
        LET tx == last'.arg
            M == tx.payload.data.val
        IN /\ Db_get_identity_state(db', tx.public_key).val.data_store
                = M @@ Db_get_identity_state(db, tx.public_key).val.data_store
           /\ BalanceOf(db', tx.public_key) = BalanceOf(db, tx.public_key)
           /\ db'.seal_authorizations = db.seal_authorizations]_vars

(***************************************************************************)
(* Properties of the Mempool.                                              *)
(***************************************************************************)
\* C7: add_transaction of a transaction whose id is absent returns True and
\* get_size grows by one; add_transaction of a transaction whose id is present
\* returns False and leaves the mempool, stored object included, as it was.
C7_IdempotentAdmission ==
    [][mpLast'.op = "add" =>
        LET id == Transaction_transaction_id(mpLast'.arg)
        IN IF Mempool_get_transaction(pool, id).ret.some
           THEN /\ mpLast'.ret = FALSE
                /\ pool' = pool
           ELSE /\ mpLast'.ret = TRUE
                /\ Mempool_get_size(pool').ret = Mempool_get_size(pool).ret + 1]_vars

\* C7 witness: a second add under a held id, with another object, returned False
C7_Witness ==
    /\ mpLast.op = "add"
    /\ mpLast.ret = FALSE
    /\ Mempool_get_transaction(pool, Transaction_transaction_id(mpLast.arg)).ret.some
    /\ Mempool_get_transaction(pool, Transaction_transaction_id(mpLast.arg)).ret.val
         # mpLast.arg

\* C9: get_size is the number of ids added and not removed since, and
\* get_transaction finds exactly those ids.
C9_ExactLiveCount ==
    /\ Mempool_get_size(pool).ret = Cardinality(live)
    /\ \A id \in MempoolIds : Mempool_get_transaction(pool, id).ret.some <=> id \in live
    /\ mpLast.op = "size" => mpLast.ret = Cardinality(live)
    /\ mpLast.op = "get" => (mpLast.ret.some <=> mpLast.arg \in live)

\* C9 witness: get_size answered 2 after adds, a repeated add and a removal
C9_Witness ==
    /\ mpLast.op = "size"
    /\ mpLast.ret = 2
    /\ lastRemoved.some

\* C10: remove_transaction of a held id leaves it absent and get_size one less;
\* of an absent id it changes nothing; every other entry stays, in its order;
\* an id removed earlier is added again with True.
C10_Remove ==
    [][/\ mpLast'.op = "remove" =>
            LET id == mpLast'.arg
            IN /\ ~Mempool_get_transaction(pool', id).ret.some
               /\ Mempool_get_size(pool').ret =
                    Mempool_get_size(pool).ret
                      - (IF Mempool_get_transaction(pool, id).ret.some THEN 1 ELSE 0)
               /\ ~Mempool_get_transaction(pool, id).ret.some => pool' = pool
               /\ \A j \in MempoolIds \ {id} :
                    Mempool_get_transaction(pool', j).ret
                      = Mempool_get_transaction(pool, j).ret
       /\ (/\ mpLast'.op = "add"
           /\ lastRemoved = Some(Transaction_transaction_id(mpLast'.arg))
           /\ Transaction_transaction_id(mpLast'.arg) \notin live) =>
            /\ mpLast'.ret = TRUE
            /\ Mempool_get_transaction(pool', Transaction_transaction_id(mpLast'.arg)).ret
                 = Some(mpLast'.arg)]_vars

\* C10 witness: an id removed earlier from among other entries is held again
C10_Witness ==
    /\ mpLast.op = "add"
    /\ mpLast.ret = TRUE
    /\ lastRemoved = Some(Transaction_transaction_id(mpLast.arg))
    /\ Mempool_get_size(pool).ret >= 2

\* the place of transaction tx among the entries of dict p
PlaceOf(p, tx) == CHOOSE i \in DOMAIN p : p[i].v = tx

\* C11: get_pending_transactions(limit) with limit >= 0 returns min(limit,
\* get_size()) of the held transactions, each once, in ascending timestamp
\* order; no held transaction left out is older than a returned one; equal
\* timestamps come in insertion order; the mempool is not modified.
C11_GetPending ==
    [][(mpLast'.op = "pending" /\ mpLast'.arg.limit >= 0) =>
        LET r == mpLast'.ret
            limit == mpLast'.arg.limit
            size == Mempool_get_size(pool).ret
        IN /\ Len(r) = IF limit < size THEN limit ELSE size
           /\ \A i \in DOMAIN r : \E j \in DOMAIN pool : pool[j].v = r[i]
           /\ \A i, j \in DOMAIN r :
                i < j => /\ r[i] # r[j]
                         /\ r[i].payload.timestamp <= r[j].payload.timestamp
                         /\ r[i].payload.timestamp = r[j].payload.timestamp
                              => PlaceOf(pool, r[i]) < PlaceOf(pool, r[j])
           /\ \A j \in DOMAIN pool :
                (\A i \in DOMAIN r : r[i] # pool[j].v) =>
                    \A i \in DOMAIN r :
                        ~(pool[j].v.payload.timestamp < r[i].payload.timestamp)
           /\ pool' = pool]_vars

\* C11 witness: of three held transactions the two oldest, of equal timestamp,
\* were returned although a newer one was inserted first
C11_Witness ==
    /\ mpLast.op = "pending"
    /\ mpLast.arg.limit = 2
    /\ Len(pool) = 3
    /\ pool[1].v.payload.timestamp = 2
    /\ Len(mpLast.ret) = 2
    /\ mpLast.ret[1].payload.timestamp = 1
    /\ mpLast.ret[2].payload.timestamp = 1

\* C12: get_transaction(id) answers with a transaction exactly when id is held,
\* and then with the object admitted under id: an add under an absent id
\* stores its argument, and the object stored under an id changes through no
\* call but a remove_transaction of that id.
C12_FirstAdmittedKept ==
    [][/\ mpLast'.op = "get" =>
            IF mpLast'.arg \in live
            THEN /\ mpLast'.ret.some
                 /\ mpLast'.ret = Dict_get(pool, mpLast'.arg)
                 /\ Transaction_transaction_id(mpLast'.ret.val) = mpLast'.arg
            ELSE mpLast'.ret = None
       /\ (mpLast'.op = "add" /\ Transaction_transaction_id(mpLast'.arg) \notin live) =>
            Dict_get(pool', Transaction_transaction_id(mpLast'.arg)) = Some(mpLast'.arg)
       /\ \A id \in MempoolIds :
            (id \in live /\ ~(mpLast'.op = "remove" /\ mpLast'.arg = id)) =>
                Dict_get(pool', id) = Dict_get(pool, id)]_vars

\* C12 witness: an add of another object (same signed fields, another
\* signature) under a held id was refused, and the id still names the object
\* signed by S2 that was admitted first
C12_Witness ==
    /\ mpLast.op = "add"
    /\ mpLast.ret = FALSE
    /\ mpLast.arg.signature =
         SignatureManager_sign_transaction("S1", Transaction_to_bytes(mpLast.arg))
    /\ Dict_get(pool, Transaction_transaction_id(mpLast.arg)).some
    /\ Dict_get(pool, Transaction_transaction_id(mpLast.arg)).val.signature =
         SignatureManager_sign_transaction("S2", Transaction_to_bytes(mpLast.arg))

\* C8: under interleaving every Mempool call returns, and leaves the dict in
\* the state, that the call run alone at the moment it took the lock would; at
\* most one thread is inside the lock; and of the add_transaction calls for
\* one id since its last removal exactly one returned True while the id is held.
C8_MempoolAtomic ==
    /\ \A t \in Threads :
        /\ mt[t].pc \in {"release", "returned"} => mt[t].ret = mt[t].exp.ret
        /\ mt[t].pc = "release" => pool = mt[t].exp.pool
    /\ \A t1, t2 \in Threads :
        (mt[t1].pc \in InsideLock /\ mt[t2].pc \in InsideLock) => t1 = t2
    /\ \A id \in LockedIds :
        AddTrueOf(id) = IF Mempool_get_transaction(pool, id).ret.some THEN 1 ELSE 0
    /\ Mempool_get_size(pool).ret = Cardinality(Dict_keys(pool))

\* C8 witness: two add_transaction calls for one id overlapped (the second was
\* made while the first held the lock); one returned True, the other False
C8_Witness ==
    \E t1, t2 \in Threads :
        /\ t1 # t2
        /\ mt[t1].op = "add" /\ mt[t2].op = "add"
        /\ mt[t1].pc = "returned" /\ mt[t2].pc = "returned"
        /\ Transaction_transaction_id(mt[t1].arg) = Transaction_transaction_id(mt[t2].arg)
        /\ mt[t2].blocked
        /\ mt[t1].ret.add = TRUE /\ mt[t2].ret.add = FALSE
        /\ Mempool_get_size(pool).ret = 1

(***************************************************************************)
(* Properties of the transaction codec.                                    *)
(***************************************************************************)
\* a Python dict as the mapping it is: dict equality ignores insertion order
DictAsMap(items) ==
    [k \in {items[i].k : i \in DOMAIN items} |->
        items[CHOOSE i \in DOMAIN items : items[i].k = k].v]

SameOptionalDict(x, y) ==
    /\ x.some = y.some
    /\ x.some => DictAsMap(x.val) = DictAsMap(y.val)

\* the two objects agree on identity fingerprint, seal fingerprint, payload,
\* nonce and version
SameSignedFields(a, b) ==
    /\ a.public_key = b.public_key
    /\ a.seal_fingerprint = b.seal_fingerprint
    /\ a.nonce = b.nonce
    /\ a.version = b.version
    /\ a.payload.type = b.payload.type
    /\ a.payload.timestamp = b.payload.timestamp
    /\ SameOptionalDict(a.payload.data, b.payload.data)
    /\ a.payload.encrypted_data = b.payload.encrypted_data
    /\ DictAsMap(a.payload.metadata) = DictAsMap(b.payload.metadata)

\* C17: two Transaction objects that agree on the five signed fields have the
\* same canonical bytes and the same transaction_id, whatever the order their
\* payload keys were supplied in and whatever their signatures are.
C17_CanonicalDeterminism ==
    (codec.pc = "encoded" /\ SameSignedFields(codec.a, codec.b)) =>
        /\ codec.bytes_a = codec.bytes_b
        /\ codec.id_a = codec.id_b

\* C17 witness: the payload keys were supplied in another order and the
\* signature differs, and the bytes, which exist, are the same
C17_Witness ==
    /\ codec.pc = "encoded"
    /\ SameSignedFields(codec.a, codec.b)
    /\ codec.a.payload.data # codec.b.payload.data
    /\ codec.a.signature # codec.b.signature
    /\ codec.bytes_a.some
    /\ codec.bytes_a = codec.bytes_b

\* C18: two transactions that have a transaction_id have the same one exactly
\* when every signed field matches: a change of identity fingerprint, seal
\* fingerprint, nonce, version, payload type, data, encrypted data, metadata
\* or timestamp gives another id.
C18_ContentAddressing ==
    (codec.pc = "encoded" /\ codec.id_a.some /\ codec.id_b.some) =>
        (codec.id_a = codec.id_b <=> SameSignedFields(codec.a, codec.b))

\* C18 witness: the objects differ in the payload timestamp alone and their
\* ids differ
C18_Witness ==
    /\ codec.pc = "encoded"
    /\ codec.id_a.some /\ codec.id_b.some
    /\ codec.b = [codec.a EXCEPT !.payload.timestamp = 2]
    /\ codec.id_a # codec.id_b

(***************************************************************************)
(* Properties of the PayloadEncryptor.                                     *)
(***************************************************************************)
\* C19: decrypt gives back the plaintext when it is given the blob as
\* encrypted and the key derived from the same seal; with the key of another
\* seal, a tampered blob or a blob cut short (below 28 bytes in particular) it
\* raises and gives no plaintext.
C19_EncryptionRoundTrip ==
    crypt.pc = "decrypted" =>
        /\ (crypt.how = "intact" /\ crypt.seal2 = crypt.seal) =>
                crypt.result = Some(crypt.plaintext)
        /\ (crypt.how # "intact" \/ crypt.seal2 # crypt.seal) => crypt.result = None
        /\ Len(crypt.given) < 28 => crypt.result = None

\* C19 witness: a plaintext of two bytes came back from its blob of 30 bytes
C19_Witness ==
    /\ crypt.pc = "decrypted"
    /\ crypt.how = "intact"
    /\ Len(crypt.plaintext) = 2
    /\ Len(crypt.given) = 30
    /\ crypt.result = Some(crypt.plaintext)

(***************************************************************************)
(* Properties of the submit handler.                                       *)
(***************************************************************************)
\* C20: every transaction in the mempool was accepted by the Validator; a
\* submission answered 202 is found in the mempool under its transaction_id
\* and has advanced its identity's nonce by one; a submission the Validator
\* rejects leaves the mempool as it was and is not answered 202.
C20_SubmitPipeline ==
    [][/\ \A i \in DOMAIN pool' : pool'[i].v \in acceptedLog'
       /\ last'.op = "submit" =>
            LET tx == last'.arg
            IN /\ last'.status = 202 =>
                    /\ Mempool_get_transaction(pool', Transaction_transaction_id(tx)).ret
                         = Some(tx)
                    /\ Db_get_identity_nonce(db, tx.public_key).some
                    /\ Db_get_identity_nonce(db', tx.public_key)
                         = Some(Db_get_identity_nonce(db, tx.public_key).val + 1)
               /\ ~last'.ok =>
                    /\ pool' = pool
                    /\ last'.status # 202]_vars

\* C20 witness: a rejected submission (the replay of a transaction that is in
\* the mempool) was answered 400 while the mempool holds two accepted ones
C20_Witness ==
    /\ last.op = "submit"
    /\ last.status = 400
    /\ last.arg \in acceptedLog
    /\ Mempool_get_size(pool).ret = 2
    /\ \A i \in DOMAIN pool : pool[i].v \in acceptedLog


(***************************************************************************)
(* POST /submit when one call to the store fails.  Every Database method   *)
(* runs in its own transaction, which rolls back and re-raises; the        *)
(* exception leaves through the handler unless a try block on the way      *)
(* catches it.  What the calls before it committed stays committed.        *)
(***************************************************************************)
Faults == {"none", "get_authorized_seal_public_key", "get_identity_nonce",
           "deactivate_seal", "authorize_seal", "increment_identity_nonce",
           "save_transaction"}

Faulted(ok, reason, d, fired) == [ok |-> ok, reason |-> reason, db |-> d, fired |-> fired]

\* Validator._process_seal_rotation when store call fault raises: the except
\* clause of the method turns any exception into a False return
Validator_process_seal_rotation_failing(d, tx, fault) ==
    IF ~SealRotationData_model_validate(tx.payload.data)
    THEN Faulted(FALSE, "MalformedRotation", d, FALSE)
    ELSE IF fault = "deactivate_seal"
    THEN Faulted(FALSE, "MalformedRotation", d, TRUE)
    ELSE LET rotation_data == tx.payload.data.val
             d1 == Db_deactivate_seal(d, tx.seal_fingerprint).db
             decoded == b64decode(rotation_data.new_seal_public_key)
         IN IF ~decoded.some
            THEN Faulted(FALSE, "MalformedRotation", d1, FALSE)
            ELSE IF fault = "authorize_seal"
            THEN Faulted(FALSE, "MalformedRotation", d1, TRUE)
            ELSE Faulted(TRUE, "rotated",
                         Db_authorize_seal(d1, tx.public_key,
                                           rotation_data.new_seal_fingerprint,
                                           decoded.val, 1).db, FALSE)

\* Validator.process_transaction when store call fault raises: the calls made
\* outside a try block let the exception out of the method
Validator_process_transaction_failing(d, tx, fault) ==
    IF fault = "get_authorized_seal_public_key"
    THEN Faulted(FALSE, "StoreError", d, TRUE)
    ELSE
    LET seal_public_key_bytes ==
            Db_get_authorized_seal_public_key(d, tx.public_key, tx.seal_fingerprint)
    IN IF ~seal_public_key_bytes.some
       THEN Faulted(FALSE, "SealNotAuthorized", d, FALSE)
       ELSE IF ~VerifySignature(seal_public_key_bytes.val, tx.signature,
                                Transaction_to_bytes(tx))
       THEN Faulted(FALSE, "InvalidSignature", d, FALSE)
       ELSE IF fault = "get_identity_nonce"
       THEN Faulted(FALSE, "StoreError", d, TRUE)
       ELSE IF ~NonceGate(tx.nonce, Db_get_identity_nonce(d, tx.public_key))
       THEN Faulted(FALSE, "NonceMismatch", d, FALSE)
       ELSE LET eff == IF tx.payload.type = "seal_rotation"
                       THEN Validator_process_seal_rotation_failing(d, tx, fault)
                       ELSE Faulted(TRUE, "none", d, FALSE)
            IN IF ~eff.ok
               THEN eff
               ELSE IF fault = "increment_identity_nonce"
               THEN Faulted(FALSE, "StoreError", eff.db, TRUE)
               ELSE Faulted(TRUE, "accepted",
                            Db_increment_identity_nonce(eff.db, tx.public_key).db, FALSE)

FaultyAnswer(status, out, d, p, fired) ==
    [status |-> status, ok |-> out.ok, reason |-> out.reason, db |-> d, pool |-> p,
     fired |-> fired]

\* routes.submit_transaction when store call fault raises: an exception that
\* leaves the handler is answered 500 by the framework
submit_transaction_failing(d, p, transaction, fault) ==
    LET out == Validator_process_transaction_failing(d, transaction, fault)
    IN IF out.reason = "StoreError"
       THEN FaultyAnswer(500, out, out.db, p, TRUE)
       ELSE IF ~out.ok
       THEN FaultyAnswer(400, out, out.db, p, out.fired)
       ELSE LET added == Mempool_add_transaction(p, transaction)
            IN IF ~added.ret
               THEN FaultyAnswer(409, out, out.db, added.pool, FALSE)
               ELSE IF fault = "save_transaction"
               THEN FaultyAnswer(500, out, out.db, added.pool, TRUE)
               ELSE LET saved == Db_save_transaction(out.db, transaction, "pending")
                    IN IF ~saved.ok
                       THEN FaultyAnswer(500, out, saved.db, added.pool, FALSE)
                       ELSE FaultyAnswer(202, out, saved.db, added.pool, FALSE)

\* transactions of I1 signed by the seal they name
FaultyTxs ==
    {tx \in ReplayTxs :
        tx.signature = SignatureManager_sign_transaction(tx.seal_fingerprint,
                                                         Transaction_to_bytes(tx))}

\* POST /submit while the store may fail at one call
SubmitFailing ==
    /\ last.op = "idle"
    /\ \E tx \in FaultyTxs, fault \in Faults :
        LET r == submit_transaction_failing(db, pool, tx, fault)
        IN /\ r.fired = (fault # "none")
           /\ db' = r.db
           /\ pool' = r.pool
           /\ last' = [op |-> "submit", arg |-> tx, ok |-> r.ok, reason |-> r.reason,
                       status |-> r.status, fault |-> fault]
    /\ UNCHANGED <<rotated, acceptedLog, calls, mpLast, live, lastRemoved, lockVars,
                   pureVars>>

NextFaulty == RegisterIdentity \/ SubmitFailing \/ Respond

SpecFaulty == Init /\ [][NextFaulty]_vars

SealRows(d) == d.seal_authorizations

\* C21: a submission during which a store call fails ends as a rejection, with
\* the transaction not in the mempool, the nonce not advanced and the seal
\* authorizations as they were
C21_StoreFailureClean ==
    [][(last.op = "idle" /\ last'.op = "submit" /\ last'.fault # "none")
       => /\ last'.status # 202
          /\ ~Dict_contains(pool', Transaction_transaction_id(last'.arg))
          /\ Db_get_identity_nonce(db', last'.arg.public_key)
               = Db_get_identity_nonce(db, last'.arg.public_key)
          /\ SealRows(db') = SealRows(db)]_vars


\* C22: a registration whose claimed fingerprint differs from the fingerprint
\* of the submitted identity key is rejected and writes nothing to the store:
\* no identity row, no seal authorization
C22_FingerprintCheck ==
    [][(/\ last.op = "idle"
        /\ last'.op = "register"
        /\ PublicKey_generate_fingerprint(last'.arg.public_key_pem)
             # last'.arg.public_key_fingerprint)
       => /\ ~last'.ok
          /\ last'.reason = "FingerprintMismatch"
          /\ db' = db]_vars

\* a mismatching registration was rejected although the claimed identity exists
\* and has no authorization of that seal: trusting the claim would have written
C22_Witness ==
    /\ last.op = "register"
    /\ PublicKey_generate_fingerprint(last.arg.public_key_pem)
         # last.arg.public_key_fingerprint
    /\ ~last.ok
    /\ last.arg.public_key_fingerprint \in db.identities
    /\ PublicKey_generate_fingerprint(last.arg.public_key_pem) \notin db.identities
    /\ <<last.arg.public_key_fingerprint, last.arg.seal_fingerprint>>
          \notin DOMAIN db.seal_authorizations


\* the identities for which seal fingerprint f is active in store d
ActiveHolders(d, f) ==
    {i \in d.identities : Db_get_authorized_seal_public_key(d, i, f).some}

\* C23: in every reachable state each seal fingerprint is active for at most
\* one identity
C23_SealUniqueAcrossIdentities ==
    \A f \in Seals : Cardinality(ActiveHolders(db, Seal_get_fingerprint(f))) <= 1


\* the transactions of identity i among those accepted so far
AcceptedOf(i, log) == {tx \in log : tx.public_key = i}

\* C24: the nonce of every identity equals the number of its transactions
\* accepted so far; it starts at 0, never decreases, and changes only by +1, in
\* the step that accepts a transaction of that identity, which always changes it
C24_NonceCountsAccepted ==
    [][\A i \in Identities :
        LET cur == Db_get_identity_nonce(db, i)
            new == Db_get_identity_nonce(db', i)
            accepting == /\ last.op = "idle"
                         /\ last'.op = "submit"
                         /\ last'.ok
                         /\ last'.arg.public_key = i
        IN /\ new.some => new.val = Cardinality(AcceptedOf(i, acceptedLog'))
           /\ (~cur.some /\ new.some) => new.val = 0
           /\ cur.some => (new.some /\ new.val >= cur.val)
           /\ (cur.some /\ new # cur) => (new.val = cur.val + 1 /\ accepting)
           /\ accepting => (cur.some /\ new.val = cur.val + 1)]_vars

\* a second transaction of I1 was accepted while I2 is registered: I1 counts
\* two, I2 none
C24_Witness ==
    /\ last.op = "submit"
    /\ last.ok
    /\ last.arg.public_key = "I1"
    /\ Db_get_identity_nonce(db, "I1") = Some(2)
    /\ Cardinality(AcceptedOf("I1", acceptedLog)) = 2
    /\ Db_get_identity_nonce(db, "I2") = Some(0)


(***************************************************************************)
(* The StateManager of core/state.py: identities kept in a dict in memory, *)
(* an IdentityState per public key, transactions applied one at a time.    *)
(* It checks the seal and the nonce only; no signature is looked at.       *)
(***************************************************************************)
MaxSmNonce == 1
MaxBalance == 1

\* the dict key None
NoneKey == "None"

\* IdentityState(public_key=..., balance=...): the dataclass defaults
IdentityState(balance) ==
    [balance |-> balance, active_seals |-> {}, all_seals |-> {},
     data_store |-> <<>>, nonce |-> 0]

IdentityState_can_authorize(state, seal_fingerprint) ==
    seal_fingerprint \in state.active_seals

IdentityState_add_seal(state, seal_fingerprint) ==
    [state EXCEPT !.active_seals = @ \cup {seal_fingerprint},
                  !.all_seals = @ \cup {seal_fingerprint}]

\* rotate_seal mutated to forget the all_seals.add
IdentityState_rotate_seal_unrecorded(state, old_seal, new_seal) ==
    [state EXCEPT !.active_seals = (@ \ {old_seal}) \cup {new_seal}]

IdentityState_rotate_seal(state, old_seal, new_seal) ==
    [state EXCEPT !.active_seals = (@ \ {old_seal}) \cup {new_seal},
                  !.all_seals = @ \cup {new_seal}]

IdentityState_increment_nonce(state) == [state EXCEPT !.nonce = @ + 1]

\* dict.get(key): None when the key is absent
PyDict_get(data, key) == IF key \in DOMAIN data THEN Some(data[key]) ELSE None

\* dict assignment in a loop over data.items()
PyDict_update(store, data) ==
    [k \in DOMAIN store \cup DOMAIN data |-> IF k \in DOMAIN data THEN data[k] ELSE store[k]]

\* what apply_transaction gave: its return value, or that it raised, and the dict after it
SmResult(ok, raised, identities) == [ok |-> ok, raised |-> raised, identities |-> identities]

\* self.identities[key] = IdentityState(public_key=key) unless the key is there
SmEnsure(identities, key) ==
    IF key \in DOMAIN identities THEN identities
    ELSE (key :> IdentityState(0)) @@ identities

\* apply_transaction mutated to deduct from the sender without adding to the recipient
StateManager_apply_transaction_debit_only(identities, transaction) ==
    LET public_key == transaction.public_key
        ids == SmEnsure(identities, public_key)
        state == ids[public_key]
        data == transaction.payload.data
        tx_type == transaction.payload.type
        counted(i) == [i EXCEPT ![public_key] = IdentityState_increment_nonce(@)]
    IN IF ~IdentityState_can_authorize(state, transaction.seal_fingerprint)
       THEN SmResult(FALSE, FALSE, ids)
       ELSE IF transaction.nonce # state.nonce
       THEN SmResult(FALSE, FALSE, ids)
       ELSE IF tx_type \in {"token_transfer", "seal_rotation", "data"} /\ ~data.some
       THEN SmResult(FALSE, TRUE, ids)
       ELSE IF tx_type = "token_transfer"
       THEN LET got == PyDict_get(data.val, "amount")
                amount == IF got.some THEN got.val ELSE 0
                recipient == PyDict_get(data.val, "recipient")
                rkey == IF recipient.some THEN recipient.val ELSE NoneKey
            IN IF amount <= 0 \/ state.balance < amount
               THEN SmResult(FALSE, FALSE, ids)
               ELSE LET paid == [ids EXCEPT ![public_key].balance = @ - amount]
                        known == SmEnsure(paid, rkey)
                        received == known
                    IN SmResult(TRUE, FALSE, counted(received))
       ELSE IF tx_type = "seal_rotation"
       THEN LET old_seal == PyDict_get(data.val, "old_seal")
                new_seal == PyDict_get(data.val, "new_seal")
            IN IF \/ ~old_seal.some \/ old_seal.val = ""
                  \/ ~new_seal.some \/ new_seal.val = ""
               THEN SmResult(FALSE, FALSE, ids)
               ELSE SmResult(TRUE, FALSE,
                             counted([ids EXCEPT ![public_key] =
                                 IdentityState_rotate_seal(@, old_seal.val, new_seal.val)]))
       ELSE IF tx_type = "data"
       THEN SmResult(TRUE, FALSE,
                     counted([ids EXCEPT ![public_key].data_store =
                                             PyDict_update(@, data.val)]))
       ELSE SmResult(TRUE, FALSE, counted(ids))

\* StateManager.apply_transaction
StateManager_apply_transaction(identities, transaction) ==
    LET public_key == transaction.public_key
        ids == SmEnsure(identities, public_key)
        state == ids[public_key]
        data == transaction.payload.data
        tx_type == transaction.payload.type
        counted(i) == [i EXCEPT ![public_key] = IdentityState_increment_nonce(@)]
    IN IF ~IdentityState_can_authorize(state, transaction.seal_fingerprint)
       THEN SmResult(FALSE, FALSE, ids)
       ELSE IF transaction.nonce # state.nonce
       THEN SmResult(FALSE, FALSE, ids)
       ELSE IF tx_type \in {"token_transfer", "seal_rotation", "data"} /\ ~data.some
       THEN SmResult(FALSE, TRUE, ids)
       ELSE IF tx_type = "token_transfer"
       THEN LET got == PyDict_get(data.val, "amount")
                amount == IF got.some THEN got.val ELSE 0
                recipient == PyDict_get(data.val, "recipient")
                rkey == IF recipient.some THEN recipient.val ELSE NoneKey
            IN IF amount <= 0 \/ state.balance < amount
               THEN SmResult(FALSE, FALSE, ids)
               ELSE LET paid == [ids EXCEPT ![public_key].balance = @ - amount]
                        known == SmEnsure(paid, rkey)
                        received == [known EXCEPT ![rkey].balance = @ + amount]
                    IN SmResult(TRUE, FALSE, counted(received))
       ELSE IF tx_type = "seal_rotation"
       THEN LET old_seal == PyDict_get(data.val, "old_seal")
                new_seal == PyDict_get(data.val, "new_seal")
            IN IF \/ ~old_seal.some \/ old_seal.val = ""
                  \/ ~new_seal.some \/ new_seal.val = ""
               THEN SmResult(FALSE, FALSE, ids)
               ELSE SmResult(TRUE, FALSE,
                             counted([ids EXCEPT ![public_key] =
                                 IdentityState_rotate_seal(@, old_seal.val, new_seal.val)]))
       ELSE IF tx_type = "data"
       THEN SmResult(TRUE, FALSE,
                     counted([ids EXCEPT ![public_key].data_store =
                                             PyDict_update(@, data.val)]))
       ELSE SmResult(TRUE, FALSE, counted(ids))

\* StateManager.initialize_identity
StateManager_initialize_identity(identities, public_key, initial_seal, initial_balance) ==
    IF public_key \in DOMAIN identities THEN identities
    ELSE (public_key :> IdentityState_add_seal(IdentityState(initial_balance), initial_seal))
         @@ identities

\* payloads the StateManager is given: transfers of -1, 0, 1 or no stated amount to
\* an identity or to no stated recipient, rotations naming old and new seal,
\* one or neither, cleartext data, and a payload whose data is None
SmPayloads ==
    {TransactionPayload("token_transfer", TransferData(a, r), 1) :
        a \in 0..MaxBalance, r \in Identities}
    \cup {TransactionPayload("token_transfer", TransferData(-1, "I2"), 1),
          TransactionPayload("token_transfer", Some([amount |-> 1]), 1),
          TransactionPayload("token_transfer", Some([recipient |-> "I2"]), 1)}
    \cup {TransactionPayload("seal_rotation", Some([old_seal |-> o, new_seal |-> n]), 1) :
            o \in Seals, n \in Seals}
    \cup {TransactionPayload("seal_rotation", Some([new_seal |-> "S2"]), 1),
          TransactionPayload("seal_rotation", RotationData("S2", b64encode(Seal_get_public_key_bytes("S2"))), 1),
          TransactionPayload("data", DataMsg, 1),
          TransactionPayload("data", None, 1),
          TransactionPayload("contract_deploy", None, 1)}

\* the one identity that is initialized and sends; the other one receives
SmSender == "I1"

SmTxs ==
    {UnsignedTx(SmSender, Seal_get_fingerprint(s), p, n) :
        s \in Seals, p \in SmPayloads, n \in 0..MaxSmNonce}

SmUnchanged == UNCHANGED <<codec, crypt, heap, storeVars, calls, mempoolVars, lockVars>>

SmInitialize ==
    /\ \E pk \in {SmSender}, s \in Seals, b \in 0..MaxBalance :
        sm' = [identities |-> StateManager_initialize_identity(sm.identities, pk, s, b),
               last |-> [op |-> "initialize_identity", arg |-> Some(pk), ok |-> TRUE,
                         raised |-> FALSE]]
    /\ SmUnchanged

\* get_identity_state(pk).add_seal(s)
SmAddSeal ==
    /\ \E pk \in DOMAIN sm.identities \cap {SmSender}, s \in Seals :
        sm' = [identities |-> [sm.identities EXCEPT ![pk] = IdentityState_add_seal(@, s)],
               last |-> [op |-> "add_seal", arg |-> Some(pk), ok |-> TRUE,
                         raised |-> FALSE]]
    /\ SmUnchanged

\* get_identity_state(pk).rotate_seal(old, new)
SmRotateSeal ==
    /\ \E pk \in DOMAIN sm.identities \cap {SmSender}, o \in Seals, n \in Seals :
        sm' = [identities |-> [sm.identities EXCEPT
                                  ![pk] = IdentityState_rotate_seal(@, o, n)],
               last |-> [op |-> "rotate_seal", arg |-> Some(pk), ok |-> TRUE,
                         raised |-> FALSE]]
    /\ SmUnchanged

SmApply ==
    /\ \E tx \in SmTxs :
        LET r == StateManager_apply_transaction(sm.identities, tx)
        IN sm' = [identities |-> r.identities,
                  last |-> [op |-> "apply_transaction", arg |-> Some(tx.public_key),
                            ok |-> r.ok, raised |-> r.raised]]
    /\ SmUnchanged

NextState == SmInitialize \/ SmAddSeal \/ SmRotateSeal \/ SmApply

SpecState == Init /\ [][NextState]_vars

\* C25: active_seals is a subset of all_seals for every IdentityState, in every
\* state reachable by initialize_identity, add_seal, rotate_seal and
\* apply_transaction
C25_ActiveSubsetAll ==
    \A pk \in DOMAIN sm.identities :
        sm.identities[pk].active_seals \subseteq sm.identities[pk].all_seals

\* an applied rotation has replaced the active seal by one that was not known
\* before: both seals are recorded, only the new one is active
C25_Witness ==
    /\ sm.last.op = "apply_transaction"
    /\ sm.last.ok
    /\ "I1" \in DOMAIN sm.identities
    /\ sm.identities["I1"].active_seals = {"S2"}
    /\ sm.identities["I1"].all_seals = {"S1", "S2"}
    /\ sm.identities["I1"].nonce = 1


\* the version stored for seal f of identity i
SealVersion(d, i, f) == d.seal_authorizations[<<i, f>>].version

\* C26: an accepted rotation signed by a seal stored at version v, naming a
\* seal the identity never had, leaves the new seal stored for the same
\* identity at version v + 1
C26_RotationVersion ==
    [][(/\ last.op = "idle"
        /\ last'.op = "submit"
        /\ last'.ok
        /\ last'.arg.payload.type = "seal_rotation"
        /\ <<last'.arg.public_key, last'.arg.payload.data.val.new_seal_fingerprint>>
              \notin DOMAIN db.seal_authorizations) =>
        LET tx == last'.arg
            n == tx.payload.data.val.new_seal_fingerprint
        IN /\ <<tx.public_key, n>> \in DOMAIN db'.seal_authorizations
           /\ SealVersion(db', tx.public_key, n)
                = SealVersion(db, tx.public_key, tx.seal_fingerprint) + 1]_vars


\* C27: the gates run in the order seal authorization, signature, nonce, each
\* ending the call: the step that looks the seal up answers SealNotAuthorized
\* when the seal is not active and InvalidSignature when it is active and the
\* signature is bad, whatever the nonce; the nonce is read only by a handler
\* whose transaction passed both, and NonceMismatch is answered only there
C27_GateOrder ==
    [][\A t \in Threads :
        LET tx == calls[t].tx.val
            k == Db_get_authorized_seal_public_key(db, tx.public_key, tx.seal_fingerprint)
        IN /\ (calls[t].pc = "seal_lookup" /\ calls'[t] # calls[t]) =>
                IF ~k.some
                THEN /\ calls'[t].pc = "done"
                     /\ calls'[t].reason = "SealNotAuthorized"
                     /\ db' = db
                ELSE IF ~VerifySignature(k.val, tx.signature, Transaction_to_bytes(tx))
                THEN /\ calls'[t].pc = "done"
                     /\ calls'[t].reason = "InvalidSignature"
                     /\ db' = db
                ELSE /\ calls'[t].pc = "nonce_read"
                     /\ calls'[t].key = k
           /\ calls'[t].pc = "nonce_read" =>
                /\ calls'[t].key.some
                /\ VerifySignature(calls'[t].key.val, calls'[t].tx.val.signature,
                                   Transaction_to_bytes(calls'[t].tx.val))
           /\ (calls'[t].pc = "done" /\ calls[t].pc # "done"
               /\ calls'[t].reason = "NonceMismatch") => calls[t].pc = "nonce_read"]_vars

\* one handler has answered SealNotAuthorized and another InvalidSignature for
\* an active seal, each for a transaction whose nonce is not the stored one
C27_Witness ==
    \E t, u \in Threads :
        /\ calls[t].pc = "done"
        /\ calls[t].reason = "SealNotAuthorized"
        /\ Some(calls[t].tx.val.nonce) # Db_get_identity_nonce(db, "I1")
        /\ calls[u].pc = "done"
        /\ calls[u].reason = "InvalidSignature"
        /\ Some(calls[u].tx.val.nonce) # Db_get_identity_nonce(db, "I1")
        /\ Db_get_authorized_seal_public_key(db, "I1", calls[u].tx.val.seal_fingerprint).some
        /\ db = RegisteredDb


\* the effects of transaction tx are present in store d: for a rotation the
\* signing seal is not active and the new seal has its row, for a data
\* transaction the identity's data store holds the payload's entries
EffectsApplied(d, tx) ==
    /\ tx.payload.type = "seal_rotation" =>
          /\ ~Db_get_authorized_seal_public_key(d, tx.public_key, tx.seal_fingerprint).some
          /\ <<tx.public_key, tx.payload.data.val.new_seal_fingerprint>>
                \in DOMAIN d.seal_authorizations
    /\ tx.payload.type = "data" =>
          \A k \in DOMAIN tx.payload.data.val :
              /\ k \in DOMAIN d.identity_state[tx.public_key].data_store
              /\ d.identity_state[tx.public_key].data_store[k] = tx.payload.data.val[k]

\* C28: the nonce is advanced only by the last store call of a handler that
\* accepts, when the effects of its transaction are already in the store; a
\* handler that has answered changes nothing more
C28_NonceIncrementLast ==
    [][\A t \in Threads :
        (calls'[t] # calls[t]) =>
            /\ Db_get_identity_nonce(db', "I1") # Db_get_identity_nonce(db, "I1") =>
                  /\ calls[t].pc = "increment"
                  /\ calls'[t].pc = "done"
                  /\ calls'[t].ok
                  /\ EffectsApplied(db, calls[t].tx.val)
            /\ calls[t].pc = "done" => db' = db]_vars


\* s is in ascending order of timestamp
TimestampSorted(s) ==
    \A i, j \in DOMAIN s : i < j => PendingKey(s[i]) <= PendingKey(s[j])

\* C29: under concurrent add_transaction and remove_transaction calls the list
\* get_pending_transactions returns is the timestamp-sorted, limit-truncated
\* content the mempool had at one instant between its call and its return, the
\* instant it took the lock; while it iterates the dict is that content
C29_PendingSnapshot ==
    \A t \in Threads :
        mt[t].op = "pending" =>
            /\ mt[t].pc = "iterate" =>
                  /\ pool = mt[t].exp.pool
                  /\ mt[t].ret.pending = SubSeq(Dict_values(pool), 1, Len(mt[t].ret.pending))
            /\ mt[t].pc \in {"release", "returned"} =>
                  /\ mt[t].ret = mt[t].exp.ret
                  /\ TimestampSorted(mt[t].ret.pending)
                  /\ Len(mt[t].ret.pending) <= mt[t].arg.limit

\* a get_pending_transactions call has returned two transactions in another
\* order than they were added, while a thread that called add_transaction or
\* remove_transaction during it is waiting for the lock
C29_Witness ==
    \E t, u \in Threads :
        /\ mt[t].op = "pending"
        /\ mt[t].pc = "release"
        /\ Len(mt[t].ret.pending) = 2
        /\ mt[t].ret.pending # Dict_values(pool)
        /\ mt[u].op \in {"add", "remove"}
        /\ mt[u].pc = "acquire"
        /\ mt[u].blocked


(***************************************************************************)
(* Transactions made by the signing helpers, and what becomes of them when *)
(* one signed field is changed afterwards and the signature is kept.       *)
(***************************************************************************)
\* create_signed_transaction mutated to sign before the nonce is set
SignatureManager_create_signed_transaction_presigned(public_key_fingerprint, seal, payload_type, payload_data, nonce) ==
    LET payload == TransactionPayload(payload_type, payload_data, 1)
        unsigned_tx == UnsignedTx(public_key_fingerprint, Seal_get_fingerprint(seal),
                                  payload, nonce)
        signature == SignatureManager_sign_transaction(seal,
                         Transaction_to_bytes([unsigned_tx EXCEPT !.nonce = 0]))
    IN [unsigned_tx EXCEPT !.signature = signature]

\* SignatureManager.create_signed_transaction with the payload kept in the clear
SignatureManager_create_signed_transaction(public_key_fingerprint, seal, payload_type, payload_data, nonce) ==
    LET payload == TransactionPayload(payload_type, payload_data, 1)
        unsigned_tx == UnsignedTx(public_key_fingerprint, Seal_get_fingerprint(seal),
                                  payload, nonce)
        signature == SignatureManager_sign_transaction(seal,
                                                       Transaction_to_bytes(unsigned_tx))
    IN [unsigned_tx EXCEPT !.signature = signature]

\* Transaction.create_seal_rotation
Transaction_create_seal_rotation(public_key_fingerprint, old_seal, new_seal, nonce) ==
    LET rotation_data == RotationData(Seal_get_fingerprint(new_seal),
                                      b64encode(Seal_get_public_key_bytes(new_seal)))
        payload == TransactionPayload("seal_rotation", rotation_data, 1)
        unsigned_tx == UnsignedTx(public_key_fingerprint, Seal_get_fingerprint(old_seal),
                                  payload, nonce)
        signature == SignatureManager_sign_transaction(old_seal,
                                                       Transaction_to_bytes(unsigned_tx))
    IN [unsigned_tx EXCEPT !.signature = signature]

CreatedTxs ==
    {SignatureManager_create_signed_transaction(pk, s, "data", DataMsg, n) :
        pk \in Identities, s \in Seals, n \in 0..MaxNonce}
    \cup {Transaction_create_seal_rotation(pk, o, s, n) :
        pk \in Identities, o \in Seals, s \in Seals, n \in 0..MaxNonce}

\* tx with one signed field changed and the signature kept
AlteredOf(tx) ==
    {[tx EXCEPT !.nonce = @ + 1],
     [tx EXCEPT !.payload = TransactionPayload("data", Some([msg |-> "ho"]), 1)],
     [tx EXCEPT !.version = "2.0"]}
    \cup {[tx EXCEPT !.public_key = pk] : pk \in Identities \ {tx.public_key}}
    \cup {[tx EXCEPT !.seal_fingerprint = Seal_get_fingerprint(s)] :
            s \in Seals \ {tx.seal_fingerprint}}

AlteredTxs == UNION {AlteredOf(tx) : tx \in CreatedTxs}

\* POST /submit of a created or of an altered transaction
SubmitCrafted ==
    /\ SubmitOf(CreatedTxs \cup AlteredTxs, FALSE)
    /\ UNCHANGED <<calls, mempoolVars, lockVars, pureVars>>

NextSigner == RegisterIdentity \/ SubmitCrafted \/ Respond

SpecSigner == Init /\ [][NextSigner]_vars

\* tx carries a signature a helper made for a transaction with other signed fields
Altered(tx) ==
    \E o \in CreatedTxs :
        /\ tx.signature = o.signature
        /\ Transaction_to_bytes(tx) # Transaction_to_bytes(o)

\* the unsigned transaction the helpers build first
Precursor(tx) == UnsignedTx(tx.public_key, tx.seal_fingerprint, tx.payload, tx.nonce)

\* tx carries the signature of a helper-made transaction with other signed
\* fields, whose seal is stored active with its key for the identity it names
AlteredFromAuthorized(d, tx) ==
    \E o \in CreatedTxs :
        /\ tx.signature = o.signature
        /\ Transaction_to_bytes(tx) # Transaction_to_bytes(o)
        /\ Db_get_authorized_seal_public_key(d, o.public_key, o.seal_fingerprint)
             = Some(Seal_get_public_key_bytes(o.seal_fingerprint))

\* C30 as stated: a transaction obtained from one whose seal is stored, by
\* changing a signed field and keeping the signature, is answered
\* InvalidSignature and changes no state
C30_AlteredInvalidSignature ==
    [][(last.op = "idle" /\ last'.op = "submit" /\ AlteredFromAuthorized(db, last'.arg)) =>
        /\ last'.reason = "InvalidSignature"
        /\ db' = db]_vars

\* C30: a transaction made by create_signed_transaction or create_seal_rotation
\* with seal S has the canonical bytes and the id of its unsigned precursor and
\* passes the seal and signature gates when S's key is stored active for the
\* pair it names; with one signed field changed and the signature kept it is
\* rejected and changes no state, by the signature gate when the pair it then
\* names has an active seal and by the seal gate otherwise
C30_SignatureBindsBytes ==
    [][(last.op = "idle" /\ last'.op = "submit") =>
        LET tx == last'.arg
            k == Db_get_authorized_seal_public_key(db, tx.public_key, tx.seal_fingerprint)
        IN /\ tx \in CreatedTxs =>
                /\ Transaction_to_bytes(tx) = Transaction_to_bytes(Precursor(tx))
                /\ Transaction_transaction_id(tx) = Transaction_transaction_id(Precursor(tx))
                /\ k = Some(Seal_get_public_key_bytes(tx.seal_fingerprint)) =>
                      last'.reason \notin {"SealNotAuthorized", "InvalidSignature"}
           /\ Altered(tx) =>
                /\ ~last'.ok
                /\ db' = db
                /\ last'.reason = IF k.some THEN "InvalidSignature"
                                            ELSE "SealNotAuthorized"]_vars

\* a transaction whose nonce was changed after signing, so that it is the
\* stored nonce, was stopped by the signature gate with its seal active
C30_Witness ==
    /\ last.op = "submit"
    /\ Altered(last.arg)
    /\ last.reason = "InvalidSignature"
    /\ Db_get_authorized_seal_public_key(db, last.arg.public_key,
                                         last.arg.seal_fingerprint)
         = Some(Seal_get_public_key_bytes(last.arg.seal_fingerprint))
    /\ Db_get_identity_nonce(db, last.arg.public_key) = Some(last.arg.nonce)
    /\ last.arg.nonce > 0


(***************************************************************************)
(* The payload create_signed_transaction builds, for every payload type    *)
(* and either value of encrypt_payload.                                    *)
(***************************************************************************)
\* the members of TransactionType
TransactionTypes ==
    {"data", "token_transfer", "seal_rotation", "contract_deploy", "contract_execute"}

\* the payload built with the type test left out of the condition
SignatureManager_create_payload_any_type(seal, payload_type, payload_data, encrypt_payload, nonce) ==
    IF encrypt_payload
    THEN LET encryption_key == derive_key_from_seal(Seal_export_private(seal))
             payload_bytes == json_dumps(StrDict(payload_data)).val
         IN [type |-> payload_type, data |-> None,
             encrypted_data |-> Some(PayloadEncryptor_encrypt(payload_bytes,
                                                              encryption_key, nonce)),
             metadata |-> <<>>, timestamp |-> 1]
    ELSE [type |-> payload_type, data |-> Some(payload_data), encrypted_data |-> None,
          metadata |-> <<>>, timestamp |-> 1]

\* signature.py 39-57: the payload of create_signed_transaction; nonce is what
\* os.urandom gives PayloadEncryptor.encrypt
SignatureManager_create_payload(seal, payload_type, payload_data, encrypt_payload, nonce) ==
    IF encrypt_payload /\ payload_type = "data"
    THEN LET encryption_key == derive_key_from_seal(Seal_export_private(seal))
             payload_bytes == json_dumps(StrDict(payload_data)).val
         IN [type |-> payload_type, data |-> None,
             encrypted_data |-> Some(PayloadEncryptor_encrypt(payload_bytes,
                                                              encryption_key, nonce)),
             metadata |-> <<>>, timestamp |-> 1]
    ELSE [type |-> payload_type, data |-> Some(payload_data), encrypted_data |-> None,
          metadata |-> <<>>, timestamp |-> 1]

\* create_signed_transaction is called
SignerCreate ==
    /\ crypt.pc = "none"
    /\ \E s \in Seals, type \in TransactionTypes, d \in CodecDicts, flag \in BOOLEAN,
          nonce \in os_urandom(NONCE_SIZE) :
        crypt' = [pc |-> "created", seal |-> s, payload_type |-> type,
                  payload_data |-> d, encrypt_payload |-> flag,
                  payload |-> SignatureManager_create_payload(s, type, d, flag, nonce)]
    /\ UNCHANGED <<codec, sm, heap, storeVars, calls, mempoolVars, lockVars>>

NextSignerPolicy == SignerCreate

SpecSignerPolicy == Init /\ [][NextSignerPolicy]_vars

\* C31: the payload of the transaction create_signed_transaction returns has
\* encrypted_data and no cleartext data exactly when encrypt_payload is set and
\* the type is data; otherwise it has the cleartext data as given and no
\* encrypted_data; never both
C31_EncryptionPolicy ==
    crypt.pc = "created" =>
        LET payload == crypt.payload
            encrypting == crypt.encrypt_payload /\ crypt.payload_type = "data"
        IN /\ ~(payload.data.some /\ payload.encrypted_data.some)
           /\ encrypting <=> (payload.encrypted_data.some /\ ~payload.data.some)
           /\ encrypting =>
                 /\ Len(payload.encrypted_data.val) >= NONCE_SIZE + TAG_SIZE
                 /\ PayloadEncryptor_decrypt(payload.encrypted_data.val,
                        derive_key_from_seal(Seal_export_private(crypt.seal)))
                      = json_dumps(StrDict(crypt.payload_data))
           /\ ~encrypting =>
                 /\ payload.data = Some(crypt.payload_data)
                 /\ ~payload.encrypted_data.some
           /\ payload.type = crypt.payload_type

\* encryption was asked for a token transfer, which went out in the clear
C31_Witness ==
    /\ crypt.pc = "created"
    /\ crypt.encrypt_payload
    /\ crypt.payload_type = "token_transfer"
    /\ crypt.payload.data = Some(crypt.payload_data)
    /\ crypt.payload_data # <<>>


\* C32: a submission of identity A, accepted or rejected, leaves the nonce and
\* the active seals of every other identity as they were
C32_IdentityIsolation ==
    [][(last.op = "idle" /\ last'.op = "submit") =>
        \A B \in Identities \ {last'.arg.public_key} :
            /\ Db_get_identity_nonce(db', B) = Db_get_identity_nonce(db, B)
            /\ Db_get_active_seals(db', B) = Db_get_active_seals(db, B)]_vars


\* C33: whenever apply_transaction returns False the identities dict is
\* exactly as before the call
C33_SmRejectionAllOrNothing ==
    [][(/\ sm'.last.op = "apply_transaction"
        /\ ~sm'.last.ok
        /\ ~sm'.last.raised) => sm'.identities = sm.identities]_vars


\* C34: apply_transaction ends in True or False for every transaction; it
\* never raises
C34_NeverRaises ==
    sm.last.op = "apply_transaction" => ~sm.last.raised


(***************************************************************************)
(* Seal objects (core/seal.py).  A key pair is a number; generate() draws  *)
(* one that no object has yet.  The heap lists the objects in the order    *)
(* they were made; a reference is a position in it.                        *)
(***************************************************************************)
MaxSealObjects == 6

\* Seal(private_key, public_key, version, is_active)
SealObject(key, version, is_active) ==
    [key |-> key, version |-> version, is_active |-> is_active]

\* Seal.generate with the key pair the generator gave: the dataclass defaults
Seal_generate(key) == SealObject(key, 1, TRUE)

\* Seal.rotate: the pair it returns, and the receiver after the call
Seal_rotate(self, key) ==
    [old |-> SealObject(self.key, self.version, FALSE),
     new |-> [Seal_generate(key) EXCEPT !.version = self.version + 1],
     self |-> self]

\* a key pair no object on the heap has
FreshKey(objects) == Cardinality({objects[i].key : i \in DOMAIN objects}) + 1

SealUnchanged == UNCHANGED <<codec, crypt, sm, storeVars, calls, mempoolVars, lockVars>>

SealGenerate ==
    /\ Len(heap.objects) < MaxSealObjects
    /\ heap' = [objects |-> Append(heap.objects, Seal_generate(FreshKey(heap.objects))),
                last |-> [op |-> "generate", self |-> 0, old |-> 0,
                          new |-> Len(heap.objects) + 1]]
    /\ SealUnchanged

SealRotate ==
    /\ Len(heap.objects) + 2 <= MaxSealObjects
    /\ \E i \in DOMAIN heap.objects :
        LET r == Seal_rotate(heap.objects[i], FreshKey(heap.objects))
        IN heap' = [objects |-> [heap.objects EXCEPT ![i] = r.self] \o <<r.old, r.new>>,
                    last |-> [op |-> "rotate", self |-> i,
                              old |-> Len(heap.objects) + 1,
                              new |-> Len(heap.objects) + 2]]
    /\ SealUnchanged

\* Seal.import_private(seal.export_private()): the key pair again, in a new
\* object with the dataclass defaults
SealImport ==
    /\ Len(heap.objects) < MaxSealObjects
    /\ \E i \in DOMAIN heap.objects :
        heap' = [objects |-> Append(heap.objects, Seal_generate(heap.objects[i].key)),
                 last |-> [op |-> "import_private", self |-> i, old |-> 0,
                           new |-> Len(heap.objects) + 1]]
    /\ SealUnchanged

NextSeals == SealGenerate \/ SealRotate \/ SealImport

SpecSeals == Init /\ [][NextSeals]_vars

\* C35: rotate() on a seal of version v returns old with the same key pair,
\* version v and inactive, and new with a fresh key pair, active, at version
\* v + 1; after the call the seal that was rotated is inactive
C35_SealRotate ==
    [][heap'.last.op = "rotate" =>
        LET self == heap.objects[heap'.last.self]
            old == heap'.objects[heap'.last.old]
            new == heap'.objects[heap'.last.new]
        IN /\ old.key = self.key
           /\ old.version = self.version
           /\ ~old.is_active
           /\ new.is_active
           /\ new.version = self.version + 1
           /\ \A i \in DOMAIN heap.objects : heap.objects[i].key # new.key
           /\ ~heap'.objects[heap'.last.self].is_active]_vars


\* C37: a Validator call, accepted or rejected, leaves every identity that
\* had an active seal with at least one active seal
C37_NoLockout ==
    [][(last.op = "idle" /\ last'.op = "submit") =>
        \A i \in Identities :
            Db_get_active_seals(db, i) # {} => Db_get_active_seals(db', i) # {}]_vars


\* C38: the active seals of a registered identity change only by an accepted
\* seal_rotation of that identity, and a register_identity call for a
\* registered identity fails and adds no authorization
C38_AuthorityByActiveSeal ==
    [][/\ \A i \in db.identities :
            Db_get_active_seals(db', i) # Db_get_active_seals(db, i) =>
                /\ last'.op = "submit"
                /\ last'.ok
                /\ last'.arg.public_key = i
                /\ last'.arg.payload.type = "seal_rotation"
                /\ last'.arg.seal_fingerprint \in Db_get_active_seals(db, i)
       /\ (/\ last.op = "idle"
           /\ last'.op = "register"
           /\ last'.arg.public_key_fingerprint \in db.identities) =>
            /\ ~last'.ok
            /\ db'.seal_authorizations = db.seal_authorizations]_vars


\* the sum of the balances of the identities keys of the dict
RECURSIVE SumBalances(_, _)
SumBalances(identities, keys) ==
    IF keys = {} THEN 0
    ELSE LET k == CHOOSE x \in keys : TRUE
         IN identities[k].balance + SumBalances(identities, keys \ {k})

TotalBalance(identities) == SumBalances(identities, DOMAIN identities)

\* C39: every apply_transaction call leaves the sum of all balances unchanged,
\* and no balance is ever negative
C39_BalanceConservation ==
    /\ [][sm'.last.op = "apply_transaction" =>
            TotalBalance(sm'.identities) = TotalBalance(sm.identities)]_vars
    /\ [](\A k \in DOMAIN sm.identities : sm.identities[k].balance >= 0)

\* an accepted transfer without a recipient field has moved the sender's whole
\* balance to the identity stored under the key None
C39_Witness ==
    /\ sm.last.op = "apply_transaction"
    /\ sm.last.ok
    /\ NoneKey \in DOMAIN sm.identities
    /\ sm.identities[NoneKey].balance = 1
    /\ sm.identities[SmSender].balance = 0


(***************************************************************************)
(* The two validators side by side: the store holds I1 with seal S1, the   *)
(* StateManager was initialized with the same, and every transaction is    *)
(* given to both.                                                          *)
(***************************************************************************)
\* validly signed transactions of I1: cleartext data, and rotations as
\* Transaction.create_seal_rotation builds them
PairTxs == {tx \in CreatedTxs : tx.public_key = "I1"}

InitPair ==
    /\ db = RegisteredDb
    /\ last = NoCall
    /\ rotated = {}
    /\ acceptedLog = {}
    /\ HandlersIdle
    /\ MempoolIdle
    /\ LockIdle
    /\ codec = NoCodec
    /\ crypt = NoCrypt
    /\ heap = NoSeals
    /\ sm = [identities |-> StateManager_initialize_identity(<<>>, "I1", Seal_get_fingerprint("S1"), 0),
             last |-> NoSmCall]

\* one transaction goes through Validator.process_transaction and through
\* StateManager.apply_transaction
ApplyBoth ==
    /\ SubmitOf(PairTxs, FALSE)
    /\ LET r == StateManager_apply_transaction(sm.identities, last'.arg)
       IN sm' = [identities |-> r.identities,
                 last |-> [op |-> "apply_transaction", arg |-> Some(last'.arg.public_key),
                           ok |-> r.ok, raised |-> r.raised]]
    /\ UNCHANGED <<codec, crypt, heap, calls, mempoolVars, lockVars>>

NextPair == ApplyBoth \/ Respond

SpecPair == InitPair /\ [][NextPair]_vars

\* C40: given the same validly signed transactions, the Validator and the
\* StateManager return the same verdict and hold the same nonce and the same
\* active seals for every identity
C40_SameStateMachine ==
    /\ last.op = "submit" => (last.ok <=> (sm.last.ok /\ ~sm.last.raised))
    /\ \A i \in db.identities :
        /\ i \in DOMAIN sm.identities
        /\ Db_get_identity_nonce(db, i) = Some(sm.identities[i].nonce)
        /\ Db_get_active_seals(db, i) = sm.identities[i].active_seals


(***************************************************************************)
(* The Mempool under fair scheduling: a thread inside a method keeps being *)
(* scheduled (at most one of its steps is enabled at a time), and a thread *)
(* waiting for the lock gets it if the lock is free again and again.  The  *)
(* five methods are called for one transaction.                            *)
(***************************************************************************)
FairTx == CHOOSE tx \in LockedTxs : tx.nonce = 0

FairCalls ==
    {[op |-> "add", arg |-> FairTx],
     [op |-> "get", arg |-> Transaction_transaction_id(FairTx)],
     [op |-> "remove", arg |-> Transaction_transaction_id(FairTx)],
     [op |-> "size", arg |-> None],
     [op |-> "pending", arg |-> [limit |-> 1]]}

TCallFair(t) ==
    /\ mt[t].pc = "idle"
    /\ \E c \in FairCalls :
        mt' = [mt EXCEPT ![t] = [pc |-> "acquire", op |-> c.op, arg |-> c.arg,
                                 ret |-> None, exp |-> None, blocked |-> lock # "free"]]
    /\ UNCHANGED <<lock, addTrue, pool, mpLast, live, lastRemoved, storeVars, calls, pureVars>>

\* the steps of a method between taking the lock and returning
TBody(t) ==
    \/ TAddCheck(t)
    \/ TAddWrite(t)
    \/ TRemoveCheck(t)
    \/ TRemoveDelete(t)
    \/ TGet(t)
    \/ TSize(t)
    \/ TPendingStart(t)
    \/ TPendingIterate(t)
    \/ TRelease(t)

NextFair ==
    \E t \in Threads :
        \/ TCallFair(t)
        \/ TAcquire(t)
        \/ TBody(t)
        \/ TReturn(t)

\* where every thread is in its method, and who holds the lock: every step
\* of a method changes it
progress ==
    <<lock, [t \in Threads |-> <<mt[t].pc, IF mt[t].pc = "iterate" THEN Len(mt[t].ret.pending) ELSE 0>>]>>

SpecFair ==
    /\ Init
    /\ [][NextFair]_vars
    /\ \A t \in Threads :
        /\ SF_progress(TAcquire(t))
        /\ WF_progress(TAddCheck(t))
        /\ WF_progress(TAddWrite(t))
        /\ WF_progress(TRemoveCheck(t))
        /\ WF_progress(TRemoveDelete(t))
        /\ WF_progress(TGet(t))
        /\ WF_progress(TSize(t))
        /\ WF_progress(TPendingStart(t))
        /\ WF_progress(TPendingIterate(t))
        /\ WF_progress(TRelease(t))

\* C36: every Mempool call eventually returns, and a thread is never waiting
\* for the lock while it holds it: the holder is always inside a with block
C36_EveryCallReturns ==
    /\ \A t \in Threads : (mt[t].pc = "acquire") ~> (mt[t].pc = "returned")
    /\ [](\A t \in Threads : (lock = t) <=> (mt[t].pc \in InsideLock))

\* a call that found the lock held when it was made has returned
C36_Witness ==
    \E t \in Threads :
        /\ mt[t].pc = "returned"
        /\ mt[t].blocked
        /\ mt[t].op = "pending"

====
